---- MODULE Spec2Model ----
(***************************************************************************)
(* Model of the Memory Bank MCP server (keropya/memory-bank-MCP).          *)
(*                                                                         *)
(* Strings are sequences of one-character strings, so that substring       *)
(* search, case folding, splitting and trimming are computed character by  *)
(* character as the JavaScript built-ins compute them.                     *)
(*                                                                         *)
(* Numbers: a relevance score is an exact rational [num, den].  The only   *)
(* scores the code can produce are 1.0, 0 and 0.8*m/n + {0, 0.2} with      *)
(* 0 <= m <= n; in IEEE-754 doubles 1*0.8 + 0.2 is exactly 1.0 and all     *)
(* other values are far from 0.3 and from 1.0, so comparisons of the       *)
(* doubles agree with comparisons of the rationals.                        *)
(***************************************************************************)
EXTENDS Integers, Sequences, FiniteSets, TLC

VARIABLES
    pc,             \* which call is pending ("score", "search", "snippet") or "done"
    query,          \* the query string given by the caller
    queryTerms,     \* the term list handed to the scorer / snippet extractor
    text,           \* the paragraph handed to the scorer / snippet extractor
    relevanceScore, \* result of calculateRelevanceScore
    documents,      \* the corpus: <<[docType, content], ...>> in Object.entries order
    searchResults,  \* result of performAdvancedSearch
    collected,      \* (ghost) the results array of performAdvancedSearch before its sort
    rank,           \* (ghost) rank[i] = index in collected of searchResults[i]
    sectionTitle,   \* the title handed to the snippet extractor
    snippet,        \* result of extractRelevantSnippet
    window,         \* (ghost) bestPosition, startPos and endPos of extractRelevantSnippet before trim()
    byteRules,      \* the .byterules file: does it exist, can it be read, its content
    requestedType,   \* the document type handed to the file manager
    workflow,       \* result of getDocumentWorkflow
    templates,      \* the results of the calls of createDocumentTemplate so far
    now,            \* the clock: [day, ms], days since 1970-01-01 and ms of the day (UTC)
    analysis,       \* result of analyzeDocumentConsistency
    MEMORY_BANK_DIR, \* the active Memory Bank directory of the server, Null before it is set
    directories,    \* the Memory Bank directories that exist on the disk
    files,          \* the files in them: a function from the paths that exist to contents
    requests,       \* the requests the server receives, in the order of their arrival
    calls           \* calls[c]: how far the handler of requests[c] has come, and its locals

searchVars == <<query, queryTerms, text, relevanceScore, searchResults, collected, rank,
                sectionTitle, snippet, window>>

rulesVars == <<byteRules, requestedType, workflow, templates, now, analysis>>

serverVars == <<MEMORY_BANK_DIR, directories, files, requests, calls>>

vars == <<pc, documents, searchVars, rulesVars, serverVars>>

----------------------------------------------------------------------------
(* Bounds of the model *)

MaxQueryWords == 3
MaxTextWords == 3
MaxDocs == 3
MaxTokens == 5
MaxPhraseWords == 2
MaxRuleLines == 3
MaxCalls == 2
FillerLength == 70

----------------------------------------------------------------------------
(* Characters and JavaScript string built-ins *)

UpperCase == <<"A","B","C","D","E","F","G","H","I","J","K","L","M",
               "N","O","P","Q","R","S","T","U","V","W","X","Y","Z">>
LowerCase == <<"a","b","c","d","e","f","g","h","i","j","k","l","m",
               "n","o","p","q","r","s","t","u","v","w","x","y","z">>

\* The characters matched by \s and removed by trim() that the model uses.
WhiteSpace == {" ", "\n", "\t"}

UpperCaseLetters == {UpperCase[i] : i \in 1..Len(UpperCase)}

LowerOf == [c \in UpperCaseLetters |->
               LowerCase[CHOOSE i \in 1..Len(UpperCase) : UpperCase[i] = c]]

ToLowerChar(c) == IF c \in UpperCaseLetters THEN LowerOf[c] ELSE c

\* String.prototype.toLowerCase
toLowerCase(s) == [i \in 1..Len(s) |-> ToLowerChar(s[i])]

\* String.prototype.includes: s occurs in t as a contiguous substring
\* (the empty string occurs in every string).
includes(t, s) ==
    \E i \in 0..(Len(t) - Len(s)) : SubSeq(t, i + 1, i + Len(s)) = s

\* s.split(/\s+/): the pieces of s between maximal runs of whitespace; a
\* leading or trailing run leaves an empty first or last piece.
RECURSIVE SplitWs(_, _, _)
SplitWs(s, i, cur) ==
    IF i > Len(s) THEN <<cur>>
    ELSE IF s[i] \in WhiteSpace
         THEN IF i > 1 /\ s[i - 1] \in WhiteSpace
              THEN SplitWs(s, i + 1, cur)
              ELSE <<cur>> \o SplitWs(s, i + 1, <<>>)
         ELSE SplitWs(s, i + 1, Append(cur, s[i]))

splitWhitespace(s) == SplitWs(s, 1, <<>>)

\* String.prototype.trim
RECURSIVE trimStart(_)
trimStart(s) ==
    IF s # <<>> /\ Head(s) \in WhiteSpace THEN trimStart(Tail(s)) ELSE s

RECURSIVE trimEnd(_)
trimEnd(s) ==
    IF s # <<>> /\ s[Len(s)] \in WhiteSpace
    THEN trimEnd(SubSeq(s, 1, Len(s) - 1)) ELSE s

trim(s) == trimEnd(trimStart(s))

\* String.prototype.substring(from, to) with 0-based, end-exclusive offsets
substring(s, from, to) ==
    LET hi == IF to > Len(s) THEN Len(s) ELSE to
    IN  SubSeq(s, from + 1, hi)

\* s[i] with a 0-based offset
charAt(s, i) == s[i + 1]

\* Array.prototype.filter with the predicate term => term.length > 2
RECURSIVE filterLongTerms(_)
filterLongTerms(seq) ==
    IF seq = <<>> THEN <<>>
    ELSE (IF Len(Head(seq)) > 2 THEN <<Head(seq)>> ELSE <<>>)
         \o filterLongTerms(Tail(seq))

----------------------------------------------------------------------------
(* Rational numbers *)

Rat(n, d) == [num |-> n, den |-> d]
RatEq(a, b) == a.num * b.den = b.num * a.den
RatLt(a, b) == a.num * b.den < b.num * a.den
RatLe(a, b) == a.num * b.den <= b.num * a.den

One == Rat(1, 1)
Zero == Rat(0, 1)
Threshold == Rat(3, 10)

----------------------------------------------------------------------------
(* The scorer *)

\* queryTerms of performAdvancedSearch
TermsOf(q) == filterLongTerms(splitWhitespace(toLowerCase(q)))

\* Mutant: the arguments of includes exchanged.
matchCountSwapped(terms, lowerText) ==
    Cardinality({k \in 1..Len(terms) : includes(terms[k], lowerText)})

matchCountOf(terms, lowerText) ==
    Cardinality({k \in 1..Len(terms) : includes(lowerText, terms[k])})

\* Mutant: the query is not lower-cased before the exact match check.
calculateRelevanceScoreCaseSensitive(q, terms, t) ==
    LET lowerText == toLowerCase(t)
        matchCount == Cardinality({k \in 1..Len(terms) : includes(lowerText, terms[k])})
        n == IF Len(terms) > 0 THEN Len(terms) ELSE 1
        proximityTenths == IF matchCount >= 2 THEN 2 ELSE 0
    IN  IF includes(lowerText, q)
        THEN One
        ELSE Rat(8 * matchCount + proximityTenths * n, 10 * n)

\* Mutant: the proximity factor is granted from one matching term on.
calculateRelevanceScoreEagerBonus(q, terms, t) ==
    LET lowerText == toLowerCase(t)
        matchCount == Cardinality({k \in 1..Len(terms) : includes(lowerText, terms[k])})
        n == IF Len(terms) > 0 THEN Len(terms) ELSE 1
        proximityTenths == IF matchCount >= 1 THEN 2 ELSE 0
    IN  IF includes(lowerText, toLowerCase(q))
        THEN One
        ELSE Rat(8 * matchCount + proximityTenths * n, 10 * n)

\* Mutant: the term match ratio of an empty term list is 1 instead of 0.
calculateRelevanceScoreFullRatio(q, terms, t) ==
    LET lowerText == toLowerCase(t)
        matchCount == Cardinality({k \in 1..Len(terms) : includes(lowerText, terms[k])})
        proximityTenths == IF matchCount >= 2 THEN 2 ELSE 0
    IN  IF includes(lowerText, toLowerCase(q))
        THEN One
        ELSE IF Len(terms) > 0
             THEN Rat(8 * matchCount + proximityTenths * Len(terms), 10 * Len(terms))
             ELSE Rat(8 + proximityTenths, 10)

\* Mutant: the proximity factor is 0.1 instead of 0.2.
calculateRelevanceScoreSmallBonus(q, terms, t) ==
    LET lowerText == toLowerCase(t)
        matchCount == Cardinality({k \in 1..Len(terms) : includes(lowerText, terms[k])})
        n == IF Len(terms) > 0 THEN Len(terms) ELSE 1
        proximityTenths == IF matchCount >= 2 THEN 1 ELSE 0
    IN  IF includes(lowerText, toLowerCase(q))
        THEN One
        ELSE Rat(8 * matchCount + proximityTenths * n, 10 * n)

\* The score as an exact fraction.  For the term lists of the model, of at
\* most 15 terms, no score lies within rounding distance of the threshold, so
\* the comparison with 0.3 has the outcome it has in double arithmetic.
calculateRelevanceScore(q, terms, t) ==
    LET lowerText == toLowerCase(t)
        matchCount == matchCountOf(terms, lowerText)
        \* termMatchRatio = matchCount / n, proximityFactor = 2/10 or 0:
        \* termMatchRatio * 0.8 + proximityFactor over the denominator 10 n
        n == IF Len(terms) > 0 THEN Len(terms) ELSE 1
        proximityTenths == IF matchCount >= 2 THEN 2 ELSE 0
    IN  IF includes(lowerText, toLowerCase(q))
        THEN One
        ELSE Rat(8 * matchCount + proximityTenths * n, 10 * n)

----------------------------------------------------------------------------
(* The snippet extractor *)

MAX_SNIPPET_LENGTH == 150
LOOKAHEAD == 100
LEAD_IN == 30

Min(a, b) == IF a < b THEN a ELSE b
Max(a, b) == IF a > b THEN a ELSE b

\* The least and the greatest element of a set of integers that is not empty.
least(S) == CHOOSE j \in S : \A k \in S : j <= k
greatest(S) == CHOOSE j \in S : \A k \in S : k <= j

\* The 0-based offsets at which term starts in s.
occurrences(s, term) ==
    {j \in 0..(Len(s) - Len(term)) : SubSeq(s, j + 1, j + Len(term)) = term}

\* The occurrences of every term of the list.
RECURSIVE occurrencesOfAll(_, _)
occurrencesOfAll(s, terms) ==
    IF terms = <<>> THEN <<>>
    ELSE <<occurrences(s, Head(terms))>> \o occurrencesOfAll(s, Tail(terms))

\* lowerText.substring(i, i + 100).includes(term): some occurrence of the term
\* lies wholly inside the window [i, windowEnd), windowEnd = min(i + 100, length).
windowIncludes(occ, termLength, i, windowEnd) ==
    \E j \in occ : j >= i /\ j + termLength <= windowEnd

\* termCount of every offset i of the scan
termCounts(lowerText, terms) ==
    LET length == Len(lowerText)
        occ == occurrencesOfAll(lowerText, terms)
    IN  [i \in 0..(length - 1) |->
            Cardinality({k \in 1..Len(terms) :
                            windowIncludes(occ[k], Len(terms[k]), i,
                                           Min(i + LOOKAHEAD, length))})]

\* The scan "for (let i = 0; i < lowerText.length; i++)" from offset i on: the
\* loop assigns at the first offset whose termCount is above bestTermCount, and
\* goes on behind it; when there is no such offset it ends with bestPosition.
RECURSIVE scanBest(_, _, _, _, _)
scanBest(counts, length, i, bestPosition, bestTermCount) ==
    LET better == {j \in i..(length - 1) : counts[j] > bestTermCount}
    IN  IF better = {} THEN bestPosition
        ELSE scanBest(counts, length, least(better) + 1, least(better),
                      counts[least(better)])

bestPositionOf(t, terms) ==
    LET lowerText == toLowerCase(t)
    IN  scanBest(termCounts(lowerText, terms), Len(lowerText), 0, 0, 0)

\* Mutant: the start of the window is not moved back to a word boundary.
wordStartUnadjusted(t, startPos) == startPos

\* while (startPos > 0 && text[startPos] !== ' ' && text[startPos] !== '\n') startPos--
\* ends at the last offset up to startPos that is 0 or holds a space or a newline.
wordStart(t, startPos) ==
    greatest({p \in 0..startPos : p = 0 \/ charAt(t, p) = " " \/ charAt(t, p) = "\n"})

\* while (endPos < text.length && text[endPos] !== ' ' && text[endPos] !== '\n') endPos++
\* ends at the first offset from endPos on that is text.length or holds a space
\* or a newline.
wordEnd(t, endPos) ==
    least({p \in endPos..Len(t) : p = Len(t) \/ charAt(t, p) = " " \/ charAt(t, p) = "\n"})

\* Mutant: the window ends LOOKAHEAD, not MAX_SNIPPET_LENGTH, behind its start.
snippetWindowLookahead(t, terms) ==
    LET bestPosition == bestPositionOf(t, terms)
    IN  [startPos |-> wordStart(t, Max(0, bestPosition - LEAD_IN)),
         endPos   |-> wordEnd(t, Min(Len(t), bestPosition + LOOKAHEAD - LEAD_IN)),
         bestPosition |-> bestPosition]

\* startPos and endPos after the adjustment to word boundaries
snippetWindow(t, terms) ==
    LET bestPosition == bestPositionOf(t, terms)
    IN  [startPos |-> wordStart(t, Max(0, bestPosition - LEAD_IN)),
         endPos   |-> wordEnd(t, Min(Len(t), bestPosition + MAX_SNIPPET_LENGTH - LEAD_IN)),
         bestPosition |-> bestPosition]

Ellipsis == <<".", ".", ".">>

\* `**${sectionTitle}**: `
titleLabel(title) == <<"*", "*">> \o title \o <<"*", "*", ":", " ">>

\* The statements of extractRelevantSnippet behind the adjustment: the window w
\* is cut out, trimmed, marked with ellipses and labelled with the title.
formatSnippet(t, w, title) ==
    LET cut == trim(substring(t, w.startPos, w.endPos))
        withStart == IF w.startPos > 0 THEN Ellipsis \o cut ELSE cut
        withEnd == IF w.endPos < Len(t) THEN withStart \o Ellipsis ELSE withStart
    IN  IF title # <<>> THEN titleLabel(title) \o withEnd ELSE withEnd

extractRelevantSnippet(t, terms, title) ==
    formatSnippet(t, snippetWindow(t, terms), title)

----------------------------------------------------------------------------
(* The search engine *)

MAX_RESULTS == 5

\* The length of the whitespace run of s that starts at the 1-based index i.
RECURSIVE wsRun(_, _)
wsRun(s, i) ==
    IF i <= Len(s) /\ s[i] \in WhiteSpace THEN 1 + wsRun(s, i + 1) ELSE 0

\* The length of the newline run of s that starts at the 1-based index i.
RECURSIVE nlRun(_, _)
nlRun(s, i) ==
    IF i <= Len(s) /\ s[i] = "\n" THEN 1 + nlRun(s, i + 1) ELSE 0

\* Length of the match of /\n#{2,3}\s+/ at the 1-based index i, 0 when there
\* is none: a newline, two or three '#' (three preferred), a whitespace run.
headingMatch(s, i) ==
    LET at(j) == IF j <= Len(s) THEN s[j] ELSE ""
    IN  IF at(i) = "\n" /\ at(i + 1) = "#" /\ at(i + 2) = "#"
        THEN IF at(i + 3) = "#" /\ wsRun(s, i + 4) > 0 THEN 4 + wsRun(s, i + 4)
             ELSE IF wsRun(s, i + 3) > 0 THEN 3 + wsRun(s, i + 3)
             ELSE 0
        ELSE 0

\* Length of the match of /\n\n+/ at the 1-based index i, 0 when there is none.
blankLineMatch(s, i) == IF nlRun(s, i) >= 2 THEN nlRun(s, i) ELSE 0

\* content.split(/\n#{2,3}\s+/): the piece that begins at from, the leftmost
\* match at or behind index i, and the split of what follows that match
RECURSIVE splitHeadings(_, _, _)
splitHeadings(s, i, from) ==
    LET matches == {j \in i..Len(s) : headingMatch(s, j) > 0}
    IN  IF matches = {} THEN <<SubSeq(s, from, Len(s))>>
        ELSE LET behind == least(matches) + headingMatch(s, least(matches))
             IN  <<SubSeq(s, from, least(matches) - 1)>> \o splitHeadings(s, behind, behind)

\* section.split(/\n\n+/)
RECURSIVE splitBlankLines(_, _, _)
splitBlankLines(s, i, from) ==
    LET matches == {j \in i..Len(s) : blankLineMatch(s, j) > 0}
    IN  IF matches = {} THEN <<SubSeq(s, from, Len(s))>>
        ELSE LET behind == least(matches) + blankLineMatch(s, least(matches))
             IN  <<SubSeq(s, from, least(matches) - 1)>> \o splitBlankLines(s, behind, behind)

\* Array.prototype.filter(Boolean) on strings: the empty strings are dropped
RECURSIVE filterNonEmpty(_)
filterNonEmpty(seq) ==
    IF seq = <<>> THEN <<>>
    ELSE (IF Head(seq) # <<>> THEN <<Head(seq)>> ELSE <<>>)
         \o filterNonEmpty(Tail(seq))

sectionsOf(content) == filterNonEmpty(splitHeadings(content, 1, 1))

\* section.match(/^([^\n]+)/): the first line; '' when the section starts
\* with a newline
firstLine(s) ==
    LET newlines == {j \in 1..Len(s) : s[j] = "\n"}
    IN  IF newlines = {} THEN s ELSE SubSeq(s, 1, least(newlines) - 1)

titleOf(section) == trim(firstLine(section))

paragraphsOf(section) == splitBlankLines(section, 1, 1)

RECURSIVE flatten(_)
flatten(seqs) == IF seqs = <<>> THEN <<>> ELSE Head(seqs) \o flatten(Tail(seqs))

\* The paragraphs in the order the three nested loops visit them, each with its
\* document type, the title of its section and its index in section.split(...).
paragraphsOfSection(docType, section) ==
    LET paragraphs == paragraphsOf(section)
    IN  [i \in 1..Len(paragraphs) |->
            [docType |-> docType, title |-> titleOf(section),
             paragraph |-> paragraphs[i], index |-> i]]

paragraphsOfDocument(doc) ==
    LET sections == sectionsOf(doc.content)
    IN  flatten([i \in 1..Len(sections) |-> paragraphsOfSection(doc.docType, sections[i])])

visited(docs) == flatten([d \in 1..Len(docs) |-> paragraphsOfDocument(docs[d])])

\* Mutant: every paragraph with a positive score becomes a hit.
aboveZero(score) == RatLt(Zero, score)

\* relevanceScore > 0.3
aboveThreshold(score) == RatLt(Threshold, score)

\* The results array before the sort: a hit for every visited paragraph whose
\* score is above the threshold.
RECURSIVE collectHits(_, _, _)
collectHits(q, terms, units) ==
    IF units = <<>> THEN <<>>
    ELSE LET u == Head(units)
             score == calculateRelevanceScore(q, terms, u.paragraph)
         IN  (IF aboveThreshold(score)
              THEN <<[documentType |-> u.docType,
                      relevanceScore |-> score,
                      snippet |-> extractRelevantSnippet(u.paragraph, terms, u.title)]>>
              ELSE <<>>)
             \o collectHits(q, terms, Tail(units))

\* Mutant: the comparator reversed, a.relevanceScore - b.relevanceScore.
comesBeforeAscending(a, b) == RatLt(a.relevanceScore, b.relevanceScore)

\* The comparator (a, b) => b.relevanceScore - a.relevanceScore is negative,
\* so that a goes first, exactly when a scores more than b.
comesBefore(a, b) == RatLt(b.relevanceScore, a.relevanceScore)

\* Mutant: an unstable sort that puts an element in front of its equals.
insertUnstable(order, hits, k) ==
    LET behind == {p \in 1..Len(order) :
                      RatLt(hits[k].relevanceScore, hits[order[p]].relevanceScore)}
        n == Cardinality(behind)
    IN  SubSeq(order, 1, n) \o <<k>> \o SubSeq(order, n + 1, Len(order))

\* Array.prototype.sort is stable: an element goes behind every earlier element
\* that does not come after it.  order is the sorted list of indices into hits.
insertSorted(order, hits, k) ==
    LET behind == {p \in 1..Len(order) : ~comesBefore(hits[k], hits[order[p]])}
        n == Cardinality(behind)
    IN  SubSeq(order, 1, n) \o <<k>> \o SubSeq(order, n + 1, Len(order))

RECURSIVE sortOrder(_, _)
sortOrder(hits, k) ==
    IF k = 0 THEN <<>> ELSE insertSorted(sortOrder(hits, k - 1), hits, k)

\* Mutant: the slice(0, 5) left out.
topRanksUnsliced(hits) == sortOrder(hits, Len(hits))

\* .sort(...).slice(0, 5), as indices into the unsorted results
topRanks(hits) ==
    LET order == sortOrder(hits, Len(hits))
    IN  SubSeq(order, 1, Min(MAX_RESULTS, Len(order)))

performAdvancedSearch(q, docs) ==
    LET queryTermsOfQ == TermsOf(q)
        results == collectHits(q, queryTermsOfQ, visited(docs))
        top == topRanks(results)
    IN  [i \in 1..Len(top) |-> results[top[i]]]

----------------------------------------------------------------------------
(* The file manager: getDocumentWorkflow *)

\* The section regular expression, the section test of the analysis and the
\* field expressions are translated for texts and patterns over letters, digits,
\* whitespace, parentheses and the punctuation - ` : > _ # * . of the rules
\* file.  A document type or a section name is put into a RegExp unescaped: its
\* parentheses are groups, its other characters (of this alphabet, without
\* * and .) stand for themselves.

\* The backtick, which a string of the module cannot hold: the apostrophe
\* stands for it in every text of the model.
TICK == "'"

Digits == {"0", "1", "2", "3", "4", "5", "6", "7", "8", "9"}
LowerCaseLetters == {LowerCase[i] : i \in 1..Len(LowerCase)}

\* \w and the dot of the class [\w\.]
WordOrDot == UpperCaseLetters \cup LowerCaseLetters \cup Digits \cup {"_", "."}

\* The length of the run of characters of the class that starts at index i.
RECURSIVE classRun(_, _, _)
classRun(s, i, class) ==
    IF i <= Len(s) /\ s[i] \in class THEN 1 + classRun(s, i + 1, class) ELSE 0

\* The literal lit stands in s at the 1-based index i.
litAt(s, i, lit) ==
    i >= 1 /\ i + Len(lit) - 1 <= Len(s) /\ SubSeq(s, i, i + Len(lit) - 1) = lit

\* The same under the flag i.
litAtIgnoreCase(s, i, lit) ==
    i >= 1 /\ i + Len(lit) - 1 <= Len(s)
        /\ toLowerCase(SubSeq(s, i, i + Len(lit) - 1)) = toLowerCase(lit)

\* The nesting depth of the groups of a pattern behind its first n characters.
RECURSIVE groupDepth(_, _)
groupDepth(pattern, n) ==
    IF n = 0 THEN 0
    ELSE groupDepth(pattern, n - 1)
         + (IF pattern[n] = "(" THEN 1 ELSE IF pattern[n] = ")" THEN -1 ELSE 0)

\* new RegExp(pattern) throws a SyntaxError for an unmatched ')' and for an
\* unterminated group.
validPattern(pattern) ==
    /\ \A n \in 1..Len(pattern) : groupDepth(pattern, n) >= 0
    /\ groupDepth(pattern, Len(pattern)) = 0

\* The characters a valid pattern matches one after the other: its groups
\* capture, they do not match a character.
RECURSIVE literalOf(_)
literalOf(pattern) ==
    IF pattern = <<>> THEN <<>>
    ELSE (IF Head(pattern) \in {"(", ")"} THEN <<>> ELSE <<Head(pattern)>>)
         \o literalOf(Tail(pattern))

CONTEXT ==
    <<"C", "o", "n", "t", "e", "x", "t">>

\* documentType.replace(/Context/g, ' Context')
RECURSIVE replaceContext(_)
replaceContext(documentType) ==
    LET found == occurrences(documentType, CONTEXT)
    IN  IF found = {} THEN documentType
        ELSE SubSeq(documentType, 1, least(found)) \o <<" ">> \o CONTEXT
             \o replaceContext(SubSeq(documentType, least(found) + Len(CONTEXT) + 1,
                                      Len(documentType)))

\* The index behind the match of \s*\([\w\.]+\) that starts at index j, 0 when
\* there is none.
fileNameEnd(rules, j) ==
    LET open == j + wsRun(rules, j)
        close == open + 1 + classRun(rules, open + 1, WordOrDot)
    IN  IF litAt(rules, open, <<"(">>) /\ close > open + 1 /\ litAt(rules, close, <<")">>)
        THEN close + 1
        ELSE 0

\* The index behind the match of
\*   ###\s*\d+\.\s*<type pattern>\s*\([\w\.]+\)
\* that starts at index i of the rules, 0 when there is none.  The \s* in
\* front of the type takes as much whitespace as the rest of the match allows.
headingEnd(rules, i, typeLiteral) ==
    LET number == i + 3 + wsRun(rules, i + 3)
        dot == number + classRun(rules, number, Digits)
        starts == {j \in (dot + 1)..(dot + 1 + wsRun(rules, dot + 1)) :
                      /\ litAtIgnoreCase(rules, j, typeLiteral)
                      /\ fileNameEnd(rules, j + Len(typeLiteral)) > 0}
    IN  IF /\ litAt(rules, i, <<"#", "#", "#">>)
           /\ dot > number
           /\ litAt(rules, dot, <<".">>)
           /\ starts # {}
        THEN fileNameEnd(rules, greatest(starts) + Len(typeLiteral))
        ELSE 0

\* byteRulesContent.match(regex): the leftmost heading of the type and the text
\* behind it up to the next "##" (which every alternative of the lookahead
\* but $ begins with) or to the end; <<>> for null.
sectionContentOf(rules, typeLiteral) ==
    LET headings == {i \in 1..Len(rules) : headingEnd(rules, i, typeLiteral) > 0}
        from == least(headings)
        stops == {j \in headingEnd(rules, from, typeLiteral)..Len(rules) :
                     litAt(rules, j, <<"#", "#">>)}
    IN  IF headings = {} THEN <<>>
        ELSE SubSeq(rules, from, IF stops = {} THEN Len(rules) ELSE least(stops) - 1)

LABEL_PURPOSE ==
    <<"*", "*", "P", "u", "r", "p", "o", "s", "e", "*", "*", ":">>

LABEL_WHEN_TO_UPDATE ==
    <<"*", "*", "W", "h", "e", "n", " ", "t", "o", " ", "U", "p", "d", "a",
      "t", "e", "*", "*", ":">>

LABEL_STRUCTURE ==
    <<"*", "*", "S", "t", "r", "u", "c", "t", "u", "r", "e", "*", "*", ":">>

LABEL_COMMANDS ==
    <<"*", "*", "C", "o", "m", "m", "a", "n", "d", "s", "*", "*", ":">>

INFORMATION_ABOUT ==
    <<"I", "n", "f", "o", "r", "m", "a", "t", "i", "o", "n", " ", "a", "b",
      "o", "u", "t", " ">>

DOCUMENT_SUFFIX ==
    <<" ", "d", "o", "c", "u", "m", "e", "n", "t">>

AS_NEEDED ==
    <<"A", "s", " ", "n", "e", "e", "d", "e", "d">>

NO_STRUCTURE ==
    <<"N", "o", " ", "s", "p", "e", "c", "i", "f", "i", "c", " ", "s", "t",
      "r", "u", "c", "t", "u", "r", "e", " ", "d", "e", "f", "i", "n", "e",
      "d">>

UPDATE_DOCUMENT ==
    <<"u", "p", "d", "a", "t", "e", "_", "d", "o", "c", "u", "m", "e", "n",
      "t", " ">>

\* sectionContent.match(/<label>\s*(.*?)(?=\n)/): the capture of the leftmost
\* label that has a newline behind it.  \s* takes the whole whitespace run when a
\* newline follows the run; otherwise it gives back whitespace up to the last
\* newline of the run and the capture is empty.
labelValue(section, label) ==
    LET labels == {i \in 1..Len(section) : litAt(section, i, label)}
        behind == least(labels) + Len(label)
        newlines == {n \in behind..Len(section) : section[n] = "\n"}
        capture == behind + wsRun(section, behind)
        later == {n \in newlines : n >= capture}
    IN  IF labels = {} \/ newlines = {} THEN [matched |-> FALSE, value |-> <<>>]
        ELSE IF later = {} THEN [matched |-> TRUE, value |-> <<>>]
        ELSE [matched |-> TRUE, value |-> SubSeq(section, capture, least(later) - 1)]

\* sectionContent.match(/<label>[\s\S]*?(?=\*\*|$)/) followed by
\* .replace(/<label>\s*/, '').trim(): the text between the leftmost label and
\* the next "**" or the end of the section; matched is FALSE for null.
labelBlock(section, label) ==
    LET labels == {i \in 1..Len(section) : litAt(section, i, label)}
        behind == least(labels) + Len(label)
        stops == {j \in behind..Len(section) : litAt(section, j, <<"*", "*">>)}
        end == IF stops = {} THEN Len(section) ELSE least(stops) - 1
        capture == behind + wsRun(section, behind)
    IN  IF labels = {} THEN [matched |-> FALSE, value |-> <<>>]
        ELSE [matched |-> TRUE, value |-> trim(SubSeq(section, capture, end))]

\* block.split('\n')
RECURSIVE splitLines(_)
splitLines(block) ==
    LET newlines == {n \in 1..Len(block) : block[n] = "\n"}
    IN  IF newlines = {} THEN <<block>>
        ELSE <<SubSeq(block, 1, least(newlines) - 1)>>
             \o splitLines(SubSeq(block, least(newlines) + 1, Len(block)))

\* line.replace(/^\s*-\s*/, '').trim()
structureItem(line) ==
    LET dash == 1 + wsRun(line, 1)
    IN  IF litAt(line, dash, <<"-">>)
        THEN trim(SubSeq(line, dash + 1 + wsRun(line, dash + 1), Len(line)))
        ELSE trim(line)

\* line.replace(/^\s*-\s*`(.*?)`.*/, '$1').trim(): of a bullet that opens with
\* a backtick-quoted token the token is left, every other line stays as it is.
commandItem(line) ==
    LET dash == 1 + wsRun(line, 1)
        tick == dash + 1 + wsRun(line, dash + 1)
        closing == {j \in (tick + 1)..Len(line) : line[j] = TICK}
    IN  IF litAt(line, dash, <<"-">>) /\ litAt(line, tick, <<TICK>>) /\ closing # {}
        THEN trim(SubSeq(line, tick + 1, least(closing) - 1))
        ELSE trim(line)

\* The structure items last line first.
structureItemsReversed(block) ==
    LET lines == splitLines(block)
        items == filterNonEmpty([k \in 1..Len(lines) |-> structureItem(lines[k])])
    IN  [k \in 1..Len(items) |-> items[Len(items) + 1 - k]]

\* .split('\n').map(structureItem).filter(line => line.length > 0)
structureItems(block) ==
    LET lines == splitLines(block)
    IN  filterNonEmpty([k \in 1..Len(lines) |-> structureItem(lines[k])])

\* .split('\n').map(commandItem).filter(line => line.length > 0)
commandItems(block) ==
    LET lines == splitLines(block)
    IN  filterNonEmpty([k \in 1..Len(lines) |-> commandItem(lines[k])])

\* The workflow returned when there is no match and from the catch block.
defaultWorkflow(documentType) ==
    [purpose      |-> INFORMATION_ABOUT \o documentType \o DOCUMENT_SUFFIX,
     updateTiming |-> AS_NEEDED,
     structure    |-> <<NO_STRUCTURE>>,
     commands     |-> <<UPDATE_DOCUMENT \o toLowerCase(documentType)>>]

\* The workflow parsed from the section of the document type.
parsedWorkflow(sectionContent, documentType) ==
    LET purposeMatch == labelValue(sectionContent, LABEL_PURPOSE)
        updateMatch == labelValue(sectionContent, LABEL_WHEN_TO_UPDATE)
        structureMatch == labelBlock(sectionContent, LABEL_STRUCTURE)
        commandsMatch == labelBlock(sectionContent, LABEL_COMMANDS)
    IN  [purpose      |-> IF purposeMatch.matched THEN trim(purposeMatch.value)
                          ELSE INFORMATION_ABOUT \o documentType,
         updateTiming |-> IF updateMatch.matched THEN trim(updateMatch.value)
                          ELSE AS_NEEDED,
         structure    |-> IF structureMatch.matched
                          THEN structureItems(structureMatch.value)
                          ELSE <<NO_STRUCTURE>>,
         commands     |-> IF commandsMatch.matched
                          THEN commandItems(commandsMatch.value)
                          ELSE <<UPDATE_DOCUMENT \o toLowerCase(documentType)>>]

\* readByteRules throws when the file does not exist or cannot be read.
readByteRulesThrows(rulesFile) == ~rulesFile.exists \/ ~rulesFile.readable

\* getDocumentWorkflow: every exception, of readByteRules and of new RegExp,
\* is caught and answered with the default workflow.
getDocumentWorkflow(rulesFile, documentType) ==
    LET pattern == replaceContext(documentType)
        sectionContent == sectionContentOf(rulesFile.content, literalOf(pattern))
    IN  IF readByteRulesThrows(rulesFile) \/ ~validPattern(pattern)
        THEN defaultWorkflow(documentType)
        ELSE IF sectionContent = <<>> THEN defaultWorkflow(documentType)
        ELSE parsedWorkflow(sectionContent, documentType)

----------------------------------------------------------------------------
(* The file manager: createDocumentTemplate *)

\* The calendar of Date: a day is counted from 1970-01-01 (day 0), and a
\* date is [year, month, day] in the proleptic Gregorian calendar, UTC.
daysFromCivil(year, month, day) ==
    LET y == IF month <= 2 THEN year - 1 ELSE year
        era == y \div 400
        yoe == y - era * 400
        mp == IF month > 2 THEN month - 3 ELSE month + 9
        doy == (153 * mp + 2) \div 5 + day - 1
        doe == yoe * 365 + yoe \div 4 - yoe \div 100 + doy
    IN  era * 146097 + doe - 719468

civilFromDays(days) ==
    LET z == days + 719468
        era == z \div 146097
        doe == z - era * 146097
        yoe == (doe - doe \div 1460 + doe \div 36524 - doe \div 146096) \div 365
        doy == doe - (365 * yoe + yoe \div 4 - yoe \div 100)
        mp == (5 * doy + 2) \div 153
        month == IF mp < 10 THEN mp + 3 ELSE mp - 9
    IN  [year |-> yoe + era * 400 + (IF month <= 2 THEN 1 ELSE 0),
         month |-> month,
         day |-> doy - (153 * mp + 2) \div 5 + 1]

DigitChars == <<"0", "1", "2", "3", "4", "5", "6", "7", "8", "9">>

\* The decimal digits of n, padded with zeros to the given width.
RECURSIVE padded(_, _)
padded(n, width) ==
    IF width = 0 THEN <<>>
    ELSE padded(n \div 10, width - 1) \o <<DigitChars[(n % 10) + 1]>>

\* new Date().toISOString().split('T')[0] for a year of four digits
isoDate(instant) ==
    LET date == civilFromDays(instant.day)
    IN  padded(date.year, 4) \o <<"-">> \o padded(date.month, 2) \o <<"-">>
        \o padded(date.day, 2)

\* s.replace(/([A-Z])/g, ' $1')
RECURSIVE spaceCapitals(_)
spaceCapitals(s) ==
    IF s = <<>> THEN <<>>
    ELSE (IF Head(s) \in UpperCaseLetters THEN <<" ", Head(s)>> ELSE <<Head(s)>>)
         \o spaceCapitals(Tail(s))

TITLE_MARK ==
    <<"#", " ">>

QUOTE_MARK ==
    <<">", " ">>

LAST_UPDATED ==
    <<"L", "a", "s", "t", " ", "U", "p", "d", "a", "t", "e", "d", ":", " ">>

HEADING_MARK ==
    <<"#", "#", " ">>

BLANK_LINE ==
    <<"\n", "\n">>

PLACEHOLDER ==
    <<"_", "A", "d", "d", " ", "c", "o", "n", "t", "e", "n", "t", " ", "h",
      "e", "r", "e", "_">>

RULE ==
    <<"-", "-", "-">>

NOTE ==
    <<"*", "*", "N", "o", "t", "e", ":", "*", "*", " ", "T", "h", "i", "s",
      " ", "d", "o", "c", "u", "m", "e", "n", "t", " ", "s", "h", "o", "u",
      "l", "d", " ", "b", "e", " ", "u", "p", "d", "a", "t", "e", "d", " ">>

NOTE_END ==
    <<".", "\n">>

\* `## ${section}\n\n_Add content here_\n\n` for the sections from the k-th on
RECURSIVE templateSections(_, _)
templateSections(structure, k) ==
    IF k > Len(structure) THEN <<>>
    ELSE HEADING_MARK \o structure[k] \o BLANK_LINE \o PLACEHOLDER \o BLANK_LINE
         \o templateSections(structure, k + 1)

\* The template with its sections last entry first.
createDocumentTemplateBackwards(rulesFile, documentType, instant) ==
    LET schema == getDocumentWorkflow(rulesFile, documentType)
        count == Len(schema.structure)
    IN  TITLE_MARK \o trim(spaceCapitals(documentType)) \o BLANK_LINE
        \o QUOTE_MARK \o schema.purpose \o BLANK_LINE
        \o QUOTE_MARK \o LAST_UPDATED \o isoDate(instant) \o BLANK_LINE
        \o templateSections([k \in 1..count |-> schema.structure[count + 1 - k]], 1)
        \o RULE \o BLANK_LINE \o NOTE \o toLowerCase(schema.updateTiming) \o NOTE_END

\* getDocumentWorkflow catches every error, so the catch of
\* createDocumentTemplate (the basic template) is never entered.
createDocumentTemplate(rulesFile, documentType, instant) ==
    LET schema == getDocumentWorkflow(rulesFile, documentType)
    IN  TITLE_MARK \o trim(spaceCapitals(documentType)) \o BLANK_LINE
        \o QUOTE_MARK \o schema.purpose \o BLANK_LINE
        \o QUOTE_MARK \o LAST_UPDATED \o isoDate(instant) \o BLANK_LINE
        \o templateSections(schema.structure, 1)
        \o RULE \o BLANK_LINE \o NOTE \o toLowerCase(schema.updateTiming) \o NOTE_END

----------------------------------------------------------------------------
(* The file manager: analyzeDocumentConsistency *)

\* The document types that are analyzed; every other document is skipped.
KnownTypes ==
    {"projectbrief", "productContext", "systemPatterns", "techContext", "activeContext",
     "progress"}

\* The characters of the names of the documents.
NameOf ==
    [activeContext |-> <<"a", "c", "t", "i", "v", "e", "C", "o", "n", "t", "e", "x", "t">>,
     productContext |-> <<"p", "r", "o", "d", "u", "c", "t", "C", "o", "n", "t", "e", "x", "t">>,
     progress |-> <<"p", "r", "o", "g", "r", "e", "s", "s">>,
     projectbrief |-> <<"p", "r", "o", "j", "e", "c", "t", "b", "r", "i", "e", "f">>,
     README |-> <<"R", "E", "A", "D", "M", "E">>,
     systemPatterns |-> <<"s", "y", "s", "t", "e", "m", "P", "a", "t", "t", "e", "r", "n", "s">>,
     techContext |-> <<"t", "e", "c", "h", "C", "o", "n", "t", "e", "x", "t">>]

STALE_DAYS == 30

LAST_UPDATED_LABEL ==
    <<"L", "a", "s", "t", " ", "U", "p", "d", "a", "t", "e", "d", ":">>

MISSING_SECTIONS ==
    <<"M", "i", "s", "s", "i", "n", "g", " ", "s", "e", "c", "t", "i", "o",
      "n", "s", ":", " ">>

MAY_NEED_UPDATING ==
    <<"D", "o", "c", "u", "m", "e", "n", "t", " ", "m", "a", "y", " ", "n",
      "e", "e", "d", " ", "u", "p", "d", "a", "t", "i", "n", "g", " ", "(",
      "l", "a", "s", "t", " ", "u", "p", "d", "a", "t", "e", " ", "o", "v",
      "e", "r", " ", "3", "0", " ", "d", "a", "y", "s", " ", "a", "g", "o",
      ")">>

FOLLOWS_STRUCTURE ==
    <<"D", "o", "c", "u", "m", "e", "n", "t", " ", "f", "o", "l", "l", "o",
      "w", "s", " ", "t", "h", "e", " ", "s", "t", "r", "u", "c", "t", "u",
      "r", "e", " ", "d", "e", "f", "i", "n", "e", "d", " ", "i", "n", " ",
      "B", "y", "t", "e", "R", "u", "l", "e", "s">>

\* new RegExp(`##\\s*${section}`, 'i').test(content) for a section that is a
\* valid pattern: "##", whitespace, and what the section matches as a pattern,
\* anywhere in the content.  The whitespace may be shorter than the run that is
\* there when what follows still matches.
sectionRegexTest(content, section) ==
    \E i \in 1..Len(content) :
        /\ litAt(content, i, <<"#", "#">>)
        /\ \E blanks \in 0..wsRun(content, i + 2) :
               litAtIgnoreCase(content, i + 2 + blanks, literalOf(section))

\* The sections of the structure, from the k-th on, that the content lacks.
RECURSIVE missingSections(_, _, _)
missingSections(content, structure, k) ==
    IF k > Len(structure) THEN <<>>
    ELSE (IF sectionRegexTest(content, structure[k]) THEN <<>> ELSE <<structure[k]>>)
         \o missingSections(content, structure, k + 1)

\* The value of a string of decimal digits.
RECURSIVE numberOf(_)
numberOf(digits) ==
    IF digits = <<>> THEN 0
    ELSE 10 * numberOf(SubSeq(digits, 1, Len(digits) - 1))
         + (CHOOSE d \in 0..9 : DigitChars[d + 1] = digits[Len(digits)])

\* The index behind the match of \s*\d{4}-\d{2}-\d{2} that starts at index j,
\* 0 when there is none.
dateEnd(content, j) ==
    LET year == j + wsRun(content, j)
    IN  IF /\ classRun(content, year, Digits) >= 4
           /\ litAt(content, year + 4, <<"-">>)
           /\ classRun(content, year + 5, Digits) >= 2
           /\ litAt(content, year + 7, <<"-">>)
           /\ classRun(content, year + 8, Digits) >= 2
        THEN year + 10
        ELSE 0

\* content.match(/Last Updated:\s*(\d{4}-\d{2}-\d{2})/): the date of the
\* leftmost match, matched is FALSE for null.
lastUpdatedMatch(content) ==
    LET markers == {i \in 1..Len(content) :
                       /\ litAt(content, i, LAST_UPDATED_LABEL)
                       /\ dateEnd(content, i + Len(LAST_UPDATED_LABEL)) > 0}
        end == dateEnd(content, least(markers) + Len(LAST_UPDATED_LABEL))
    IN  IF markers = {} THEN [matched |-> FALSE, date |-> <<>>]
        ELSE [matched |-> TRUE, date |-> SubSeq(content, end - 10, end - 1)]

\* new Date("YYYY-MM-DD"): midnight UTC of the date; V8 takes a month from 01
\* to 12 and a day from 01 to 31 (a day behind the end of the month counts on
\* into the next month), everything else is an Invalid Date.
parseDate(date) ==
    LET year == numberOf(SubSeq(date, 1, 4))
        month == numberOf(SubSeq(date, 6, 7))
        day == numberOf(SubSeq(date, 9, 10))
    IN  IF month \in 1..12 /\ day \in 1..31
        THEN [valid |-> TRUE, day |-> daysFromCivil(year, month, 1) + day - 1, ms |-> 0]
        ELSE [valid |-> FALSE, day |-> 0, ms |-> 0]

\* thirtyDaysAgo.setDate(thirtyDaysAgo.getDate() - 30), the local time being UTC
thirtyDaysAgo(instant) == [day |-> instant.day - STALE_DAYS, ms |-> instant.ms]

\* lastUpdated < thirtyDaysAgo: a comparison with an Invalid Date (NaN) is false.
isBefore(lastUpdated, instant) ==
    /\ lastUpdated.valid
    /\ \/ lastUpdated.day < instant.day
       \/ lastUpdated.day = instant.day /\ lastUpdated.ms < instant.ms

needsUpdateOf(content, instant) ==
    LET match == lastUpdatedMatch(content)
    IN  IF match.matched
        THEN isBefore(parseDate(match.date), thirtyDaysAgo(instant))
        ELSE TRUE

\* missingSections.join(', ')
RECURSIVE joinComma(_)
joinComma(items) ==
    IF items = <<>> THEN <<>>
    ELSE IF Len(items) = 1 THEN Head(items)
    ELSE Head(items) \o <<",", " ">> \o joinComma(Tail(items))

\* The report entry of one document of a known type.
analyzeDocument(rulesFile, doc, instant) ==
    LET schema == getDocumentWorkflow(rulesFile, NameOf[doc.docType])
        missing == missingSections(doc.content, schema.structure, 1)
        needsUpdate == needsUpdateOf(doc.content, instant)
    IN  IF missing # <<>>
        THEN [documentType |-> doc.docType, status |-> "needs-update",
              recommendation |-> MISSING_SECTIONS \o joinComma(missing)]
        ELSE IF needsUpdate
        THEN [documentType |-> doc.docType, status |-> "needs-update",
              recommendation |-> MAY_NEED_UPDATING]
        ELSE [documentType |-> doc.docType, status |-> "good",
              recommendation |-> FOLLOWS_STRUCTURE]

IsKnown(doc) == doc.docType \in KnownTypes

\* new RegExp throws a SyntaxError for a section of a known document that is
\* no valid pattern; the catch throws "Failed to analyze documents".
analyzeThrows(rulesFile, docs) ==
    \E k \in 1..Len(docs) :
        /\ IsKnown(docs[k])
        /\ LET schema == getDocumentWorkflow(rulesFile, NameOf[docs[k].docType])
           IN  \E j \in 1..Len(schema.structure) : ~validPattern(schema.structure[j])

\* The documents are those readAllDocuments has returned.
analyzeDocumentConsistency(rulesFile, docs, instant) ==
    LET known == SelectSeq(docs, IsKnown)
    IN  IF analyzeThrows(rulesFile, docs)
        THEN [threw |-> TRUE, entries |-> <<>>]
        ELSE [threw |-> FALSE,
              entries |-> [k \in 1..Len(known) |-> analyzeDocument(rulesFile, known[k], instant)]]

----------------------------------------------------------------------------
(* Inputs *)

\* [1..k -> S] for every k up to n
SeqsUpTo(S, n) == UNION {[1..k -> S] : k \in 0..n}

\* words.join(' ')
RECURSIVE joinWords(_)
joinWords(words) ==
    IF words = <<>> THEN <<>>
    ELSE IF Len(words) = 1 THEN Head(words)
    ELSE Head(words) \o <<" ">> \o joinWords(Tail(words))

\* Query words: an upper-case spelling, a term, a word too short to be a term,
\* and the empty word (which makes leading, trailing and double blanks).
QueryWords == {<<>>, <<"F", "o", "o">>, <<"b", "a", "r">>, <<"i", "s">>}

\* Paragraph words: "this" contains the short query word "is".
TextWords == {<<"f", "o", "o">>, <<"B", "a", "r">>, <<"t", "h", "i", "s">>}

Queries == {joinWords(ws) : ws \in SeqsUpTo(QueryWords, MaxQueryWords)}
Texts == {joinWords(ws) : ws \in SeqsUpTo(TextWords, MaxTextWords)}

\* Term lists that are not the terms of the query.
\* Fifteen words of three letters, none of them part of another or of two
\* others joined by a blank: "waz", "wbz", ..., "woz".
ThresholdWords == [i \in 1..15 |-> <<"w", LowerCase[i], "z">>]

\* The queries of the first n of these words.
ThresholdQueries ==
    {joinWords(SubSeq(ThresholdWords, 1, n)) : n \in 1..Len(ThresholdWords)}

\* The paragraphs that hold one of the words, two of them, or three.
ThresholdTexts ==
    {ThresholdWords[i] : i \in 1..Len(ThresholdWords)}
    \cup {joinWords(<<ThresholdWords[i], ThresholdWords[j]>>) :
             i \in 1..Len(ThresholdWords), j \in 1..Len(ThresholdWords)}
    \cup {joinWords(<<ThresholdWords[1], ThresholdWords[3], ThresholdWords[i]>>) :
             i \in 1..Len(ThresholdWords)}

OtherTermLists ==
    {<<>>, <<<<"f", "o", "o">>>>, <<<<"b", "a", "r">>, <<"f", "o", "o">>, <<"b", "a", "z">>>>}

\* "## Stack\n\nfoo\n\nFoo bar"
DocStack ==
    <<"#", "#", " ", "S", "t", "a", "c", "k", "\n", "\n", "f", "o", "o",
      "\n", "\n", "F", "o", "o", " ", "b", "a", "r">>

\* "# Brief\n\nbar foo\n\n## Notes\n\nbaz\n\nfoo"
DocBrief ==
    <<"#", " ", "B", "r", "i", "e", "f", "\n", "\n", "b", "a", "r", " ", "f",
      "o", "o", "\n", "\n", "#", "#", " ", "N", "o", "t", "e", "s", "\n",
      "\n", "b", "a", "z", "\n", "\n", "f", "o", "o">>

\* "foo bar baz\n\n\nfoo\n### Sub\tfoo bar"
DocLoose ==
    <<"f", "o", "o", " ", "b", "a", "r", " ", "b", "a", "z", "\n", "\n",
      "\n", "f", "o", "o", "\n", "#", "#", "#", " ", "S", "u", "b", "\t",
      "f", "o", "o", " ", "b", "a", "r">>

\* ""
DocEmpty == <<>>

\* "qux\n\n\tbaz bar"
DocOther ==
    <<"q", "u", "x", "\n", "\n", "\t", "b", "a", "z", " ", "b", "a", "r">>

DocPool == {DocStack, DocBrief, DocLoose, DocEmpty, DocOther}

\* The keys of the corpus, in the order readAllDocuments inserts them.
DocTypes == <<"activeContext", "productContext", "progress", "projectbrief",
              "README", "systemPatterns", "techContext">>

Corpora ==
    {[d \in 1..Len(contents) |-> [docType |-> DocTypes[d], content |-> contents[d]]] :
        contents \in SeqsUpTo(DocPool, MaxDocs)}

\* ""
QueryEmpty == <<>>
\* "Foo bar"
QueryTwoTerms == <<"F", "o", "o", " ", "b", "a", "r">>
\* "foo bar baz"
QueryThreeTerms == <<"f", "o", "o", " ", "b", "a", "r", " ", "b", "a", "z">>
\* "zap"
QueryNoMatch == <<"z", "a", "p">>

SearchQueries == {QueryEmpty, QueryTwoTerms, QueryThreeTerms, QueryNoMatch}

\* A word of FillerLength characters that contains no term.
Filler == [i \in 1..FillerLength |-> "x"]

\* A paragraph for the snippet extractor is a run of these tokens: short words,
\* the long word, each with a blank, a newline or a tab behind it, and a blank
\* followed by a tab.
SnippetTokens ==
    {<<"f", "o", "o", " ">>, <<"b", "a", "r", "\n">>, <<"b", "a", "r", "\t">>,
     Filler \o <<" ">>, <<" ", "\t">>}

SnippetTexts == {flatten(tokens) : tokens \in SeqsUpTo(SnippetTokens, MaxTokens)}

SnippetTermLists == {<<<<"b", "a", "r">>>>, <<<<"b", "a", "r">>, <<"f", "o", "o">>>>}

SnippetTitles == {<<>>, <<"S", "t", "a", "c", "k">>}

\* A word of twice FillerLength characters: longer than a snippet's lead.
LongFiller == Filler \o Filler

\* "# Tech\n## Stack\n\n"
PhrasePreamble ==
    <<"#", " ", "T", "e", "c", "h", "\n", "#", "#", " ", "S", "t", "a", "c", "k",
      "\n", "\n">>

\* The body of a document for the exact phrase searches: words, the last of
\* them ending its paragraph, in front of and behind the long word, or words only.
PhraseTokens ==
    {<<"f", "o", "o", " ">>, <<"B", "a", "r", " ">>, <<"b", "a", "r", "\n", "\n">>}

PhraseBodies ==
    LET runs == {flatten(tokens) : tokens \in SeqsUpTo(PhraseTokens, MaxPhraseWords)}
    IN  runs \cup {before \o LongFiller \o <<" ">> \o behind : before, behind \in runs}

PhraseCorpora ==
    {<<[docType |-> "techContext", content |-> PhrasePreamble \o body]>> :
        body \in PhraseBodies}

\* "foo"
QueryOneTerm == <<"f", "o", "o">>
\* "bar "
QueryTrailingBlank == <<"b", "a", "r", " ">>

PhraseQueries == {QueryTwoTerms, QueryOneTerm, QueryTrailingBlank}

\* The document types asked for: two that the rules may describe, one whose
\* heading in the rules is spelled differently ("Project Brief"), and one that
\* is no valid regular expression source.
\* "progress"
TypeProgress ==
    <<"p", "r", "o", "g", "r", "e", "s", "s">>

\* "techContext"
TypeTechContext ==
    <<"t", "e", "c", "h", "C", "o", "n", "t", "e", "x", "t">>

\* "projectbrief"
TypeProjectBrief ==
    <<"p", "r", "o", "j", "e", "c", "t", "b", "r", "i", "e", "f">>

\* "notes)"
TypeUnbalanced ==
    <<"n", "o", "t", "e", "s", ")">>

RequestedTypes == {TypeProgress, TypeTechContext, TypeProjectBrief, TypeUnbalanced}

\* The headings of a type's section in the rules.
\* "### 6. Progress (progress.md)\n"
HeadingProgress ==
    <<"#", "#", "#", " ", "6", ".", " ", "P", "r", "o", "g", "r", "e", "s",
      "s", " ", "(", "p", "r", "o", "g", "r", "e", "s", "s", ".", "m", "d",
      ")", "\n">>

\* "###4.tech Context (techContext.md)\n"
HeadingTechContext ==
    <<"#", "#", "#", "4", ".", "t", "e", "c", "h", " ", "C", "o", "n", "t",
      "e", "x", "t", " ", "(", "t", "e", "c", "h", "C", "o", "n", "t", "e",
      "x", "t", ".", "m", "d", ")", "\n">>

\* "### 1. Project Brief (projectbrief.md)\n"
HeadingProjectBrief ==
    <<"#", "#", "#", " ", "1", ".", " ", "P", "r", "o", "j", "e", "c", "t",
      " ", "B", "r", "i", "e", "f", " ", "(", "p", "r", "o", "j", "e", "c",
      "t", "b", "r", "i", "e", "f", ".", "m", "d", ")", "\n">>

RuleHeadings == {HeadingProgress, HeadingTechContext, HeadingProjectBrief}

\* The lines below a heading: the field labels, bullet items, a bullet item in
\* bold, a line that is no bullet item, and the heading of the next section.
\* "- **Purpose**: Tracks work\n"
LinePurpose ==
    <<"-", " ", "*", "*", "P", "u", "r", "p", "o", "s", "e", "*", "*", ":",
      " ", "T", "r", "a", "c", "k", "s", " ", "w", "o", "r", "k", "\n">>

\* "- **Purpose**: Last Updated: 2024-01-01\n"
LinePurposeDated ==
    <<"-", " ", "*", "*", "P", "u", "r", "p", "o", "s", "e", "*", "*", ":",
      " ", "L", "a", "s", "t", " ", "U", "p", "d", "a", "t", "e", "d", ":",
      " ", "2", "0", "2", "4", "-", "0", "1", "-", "0", "1", "\n">>

\* "**When to Update**:  Daily \n"
LineWhenToUpdate ==
    <<"*", "*", "W", "h", "e", "n", " ", "t", "o", " ", "U", "p", "d", "a",
      "t", "e", "*", "*", ":", " ", " ", "D", "a", "i", "l", "y", " ", "\n">>

\* "**Structure**:\n"
LineStructure ==
    <<"*", "*", "S", "t", "r", "u", "c", "t", "u", "r", "e", "*", "*", ":",
      "\n">>

\* "- Overview\n"
LineOverview ==
    <<"-", " ", "O", "v", "e", "r", "v", "i", "e", "w", "\n">>

\* "  - Setup (local)\n"
LineSetup ==
    <<" ", " ", "-", " ", "S", "e", "t", "u", "p", " ", "(", "l", "o", "c",
      "a", "l", ")", "\n">>

\* "- **Goals**\n"
LineGoals ==
    <<"-", " ", "*", "*", "G", "o", "a", "l", "s", "*", "*", "\n">>

\* "see below\n"
LineProse ==
    <<"s", "e", "e", " ", "b", "e", "l", "o", "w", "\n">>

\* "**Commands**:\n- `update_document progress` - note\n"
LineCommands ==
    <<"*", "*", "C", "o", "m", "m", "a", "n", "d", "s", "*", "*", ":", "\n",
      "-", " ", "'", "u", "p", "d", "a", "t", "e", "_", "d", "o", "c", "u",
      "m", "e", "n", "t", " ", "p", "r", "o", "g", "r", "e", "s", "s", "'",
      " ", "-", " ", "n", "o", "t", "e", "\n">>

\* "## Notes\n"
LineNextSection ==
    <<"#", "#", " ", "N", "o", "t", "e", "s", "\n">>

RuleLines ==
    {LinePurpose, LineWhenToUpdate, LineStructure, LineOverview, LineSetup,
     LineGoals, LineProse, LineCommands, LineNextSection}

RuleTexts ==
    {heading \o flatten(lines) :
        heading \in RuleHeadings, lines \in SeqsUpTo(RuleLines, MaxRuleLines)}

\* The .byterules file is missing, cannot be read, or holds a rules text.
RulesFiles ==
    {[exists |-> FALSE, readable |-> FALSE, content |-> <<>>],
     [exists |-> TRUE, readable |-> FALSE, content |-> <<>>]}
    \cup {[exists |-> TRUE, readable |-> TRUE, content |-> rules] : rules \in RuleTexts}

\* The rules for the template builder: a section with two Structure items,
\* one with the same item twice and the other fields, one with an empty
\* Structure field, and one without a Structure field.
TemplateRuleTexts ==
    {HeadingProgress \o flatten(lines) :
        lines \in {<<LineStructure, LineOverview, LineSetup>>,
                   <<LinePurpose, LineWhenToUpdate, LineStructure, LineOverview, LineOverview>>,
                   <<LineStructure>>,
                   <<LinePurpose>>,
                   <<LinePurposeDated, LineStructure, LineOverview>>}}

TemplateRulesFiles ==
    {[exists |-> FALSE, readable |-> FALSE, content |-> <<>>]}
    \cup {[exists |-> TRUE, readable |-> TRUE, content |-> rules] : rules \in TemplateRuleTexts}

\* The clock: the first and a later instant of 2024-03-31 and of the day behind it.
Today == daysFromCivil(2024, 3, 31)

Times == {[day |-> day, ms |-> ms] : day \in {Today, Today + 1}, ms \in {0, 1}}

\* The instants of the clock that are not before the given one.
NotBefore(instant) ==
    {later \in Times :
        later.day > instant.day \/ (later.day = instant.day /\ later.ms >= instant.ms)}

\* A Structure item that is no valid regular expression source.
\* "- Plan (draft\n"
LineUnbalanced ==
    <<"-", " ", "P", "l", "a", "n", " ", "(", "d", "r", "a", "f", "t", "\n">>

\* The rules for the analyzer: sections for two types, a section for one
\* type, and a section with an item that is no valid pattern.
AnalysisRuleTexts ==
    {flatten(lines) :
        lines \in {<<HeadingProgress, LineStructure, LineOverview, LineSetup,
                     HeadingTechContext, LineStructure, LineOverview>>,
                   <<HeadingProgress, LineStructure, LineOverview>>,
                   <<HeadingProgress, LineStructure, LineOverview, LineUnbalanced>>}}

AnalysisRulesFiles ==
    {[exists |-> FALSE, readable |-> FALSE, content |-> <<>>]}
    \cup {[exists |-> TRUE, readable |-> TRUE, content |-> rules] : rules \in AnalysisRuleTexts}

\* The dates of the Last Updated markers: the day after tomorrow, today, and
\* 29, 30 and 31 days ago, counted from the earlier day of the clock, and a
\* date with month 13 and day 45.
MarkerAges == {-2, 0, 29, 30, 31}

\* "2024-13-45"
DateUnparseable ==
    <<"2", "0", "2", "4", "-", "1", "3", "-", "4", "5">>

\* "> Last Updated: "
MarkerLead ==
    <<">", " ", "L", "a", "s", "t", " ", "U", "p", "d", "a", "t", "e", "d",
      ":", " ">>

MarkerLines ==
    {<<>>, MarkerLead \o DateUnparseable \o <<"\n">>}
    \cup {MarkerLead \o isoDate([day |-> Today - age, ms |-> 0]) \o <<"\n">> : age \in MarkerAges}

\* The headings of a document: the two sections of the rules as the rules
\* spell them, the second one as its pattern reads it, and the placeholder.
\* "## Overview\n"
DocHeadingOverview ==
    <<"#", "#", " ", "O", "v", "e", "r", "v", "i", "e", "w", "\n">>

\* "## Setup (local)\n"
DocHeadingSetup ==
    <<"#", "#", " ", "S", "e", "t", "u", "p", " ", "(", "l", "o", "c", "a",
      "l", ")", "\n">>

\* "###setup local\n"
DocHeadingSetupPlain ==
    <<"#", "#", "#", "s", "e", "t", "u", "p", " ", "l", "o", "c", "a", "l",
      "\n">>

\* "## No specific structure defined\n"
DocHeadingPlaceholder ==
    <<"#", "#", " ", "N", "o", " ", "s", "p", "e", "c", "i", "f", "i", "c",
      " ", "s", "t", "r", "u", "c", "t", "u", "r", "e", " ", "d", "e", "f",
      "i", "n", "e", "d", "\n">>

DocHeadings == <<DocHeadingOverview, DocHeadingSetup, DocHeadingSetupPlain, DocHeadingPlaceholder>>

\* The headings picked from DocHeadings, in that order.
RECURSIVE pickHeadings(_, _)
pickHeadings(picked, k) ==
    IF k > Len(DocHeadings) THEN <<>>
    ELSE (IF k \in picked THEN DocHeadings[k] ELSE <<>>) \o pickHeadings(picked, k + 1)

AnalysisBodies ==
    {marker \o pickHeadings(picked, 1) :
        marker \in MarkerLines, picked \in SUBSET (1..Len(DocHeadings))}

\* The bodies of the other documents: complete and fresh, and empty.
OtherBodies ==
    {MarkerLead \o isoDate([day |-> Today, ms |-> 0]) \o <<"\n">> \o pickHeadings({1, 4}, 1),
     <<>>}

\* The documents of a corpus in the order of readAllDocuments: progress,
\* README and techContext, each of them there or not.
AnalysisCorpora ==
    {progress \o readme \o tech :
        progress \in {<<>>} \cup {<<[docType |-> "progress", content |-> body]>> :
                                     body \in AnalysisBodies},
        readme \in {<<>>} \cup {<<[docType |-> "README", content |-> body]>> :
                                   body \in {DocHeadingOverview}},
        tech \in {<<>>} \cup {<<[docType |-> "techContext", content |-> body]>> :
                                 body \in OtherBodies}}

\* Paragraphs for a term list that names a term twice: a run of up to three of
\* the twice named term, the two other terms, and the long word.
RepeatTokens ==
    {<<"f", "o", "o", " ">>, <<"b", "a", "r", " ", "b", "a", "z", " ">>, LongFiller \o <<" ">>}

RepeatTexts == {flatten(tokens) : tokens \in SeqsUpTo(RepeatTokens, 3)}

\* The terms of the query "foo foo bar baz"
RepeatTermLists ==
    {<<<<"f", "o", "o">>, <<"f", "o", "o">>, <<"b", "a", "r">>, <<"b", "a", "z">>>>}

\* The six document types with the titles of their sections in the rules that
\* initialize_memory_bank writes, in the order of their numbers.
StandardTypes ==
    <<[type |-> NameOf.projectbrief,
       title |-> <<"P", "r", "o", "j", "e", "c", "t", " ", "B", "r", "i", "e", "f">>],
      [type |-> NameOf.productContext,
       title |-> <<"P", "r", "o", "d", "u", "c", "t", " ", "C", "o", "n", "t", "e", "x", "t">>],
      [type |-> NameOf.systemPatterns,
       title |-> <<"S", "y", "s", "t", "e", "m", " ", "P", "a", "t", "t", "e", "r", "n", "s">>],
      [type |-> NameOf.techContext,
       title |-> <<"T", "e", "c", "h", " ", "C", "o", "n", "t", "e", "x", "t">>],
      [type |-> NameOf.activeContext,
       title |-> <<"A", "c", "t", "i", "v", "e", " ", "C", "o", "n", "t", "e", "x", "t">>],
      [type |-> NameOf.progress,
       title |-> <<"P", "r", "o", "g", "r", "e", "s", "s">>]>>

\* "Purpose of "
PURPOSE_OF ==
    <<"P", "u", "r", "p", "o", "s", "e", " ", "o", "f", " ">>

\* `### ${n}. ${title} (${type}.md)\n- **Purpose**: Purpose of ${type}\n`
StandardSection(n) ==
    <<"#", "#", "#", " ", DigitChars[n + 1], ".", " ">> \o StandardTypes[n].title
    \o <<" ", "(">> \o StandardTypes[n].type \o <<".", "m", "d", ")", "\n">>
    \o <<"-", " ">> \o LABEL_PURPOSE \o <<" ">> \o PURPOSE_OF \o StandardTypes[n].type
    \o <<"\n">>

\* Rules with the section of one type, and rules with the sections of all six.
StandardRuleTexts ==
    {StandardSection(n) : n \in 1..Len(StandardTypes)}
    \cup {flatten([n \in 1..Len(StandardTypes) |-> StandardSection(n)])}

StandardRulesFiles ==
    {[exists |-> TRUE, readable |-> TRUE, content |-> rules] : rules \in StandardRuleTexts}

----------------------------------------------------------------------------
(* The calls *)

NoWindow == [startPos |-> 0, endPos |-> 0, bestPosition |-> 0]

NoFile == [exists |-> FALSE, readable |-> FALSE, content |-> <<>>]

NoWorkflow == [purpose |-> <<>>, updateTiming |-> <<>>, structure |-> <<>>, commands |-> <<>>]

NoAnalysis == [threw |-> FALSE, entries |-> <<>>]

Epoch == [day |-> 0, ms |-> 0]

\* MEMORY_BANK_DIR before it is set: null
Null == <<>>

\* The server is not part of the run.
ServerIdle ==
    /\ MEMORY_BANK_DIR = Null
    /\ directories = {}
    /\ files = <<>>
    /\ requests = <<>>
    /\ calls = <<>>

\* No call of the file manager is pending or was made.
RulesIdle ==
    /\ byteRules = NoFile
    /\ requestedType = <<>>
    /\ workflow = NoWorkflow
    /\ templates = <<>>
    /\ now = Epoch
    /\ analysis = NoAnalysis

\* No call of the search engine is pending or was made.
SearchIdle ==
    /\ query = <<>>
    /\ queryTerms = <<>>
    /\ text = <<>>
    /\ relevanceScore = Zero
    /\ searchResults = <<>>
    /\ collected = <<>>
    /\ rank = <<>>
    /\ sectionTitle = <<>>
    /\ snippet = <<>>
    /\ window = NoWindow

\* A call of calculateRelevanceScore is pending.
InitScore ==
    /\ pc = "score"
    /\ \/ /\ query \in Queries
          /\ text \in Texts
          /\ queryTerms \in {TermsOf(query)} \cup OtherTermLists
       \/ /\ query \in ThresholdQueries
          /\ text \in ThresholdTexts
          /\ queryTerms = TermsOf(query)
    /\ relevanceScore = Zero
    /\ documents = <<>>
    /\ searchResults = <<>>
    /\ collected = <<>>
    /\ rank = <<>>
    /\ sectionTitle = <<>>
    /\ snippet = <<>>
    /\ window = NoWindow
    /\ RulesIdle
    /\ ServerIdle

\* A call of performAdvancedSearch is pending.
InitSearch ==
    /\ pc = "search"
    /\ query \in SearchQueries
    /\ documents \in Corpora
    /\ queryTerms = <<>>
    /\ text = <<>>
    /\ relevanceScore = Zero
    /\ searchResults = <<>>
    /\ collected = <<>>
    /\ rank = <<>>
    /\ sectionTitle = <<>>
    /\ snippet = <<>>
    /\ window = NoWindow
    /\ RulesIdle
    /\ ServerIdle

Init == InitScore \/ InitSearch

CalculateRelevanceScore ==
    /\ pc = "score"
    /\ relevanceScore' = calculateRelevanceScore(query, queryTerms, text)
    /\ pc' = "scored"
    /\ UNCHANGED <<query, queryTerms, text, documents, searchResults, collected,
                   rank, sectionTitle, snippet, window, rulesVars, serverVars>>

PerformAdvancedSearch ==
    /\ pc = "search"
    /\ queryTerms' = TermsOf(query)
    /\ searchResults' = performAdvancedSearch(query, documents)
    /\ collected' = collectHits(query, TermsOf(query), visited(documents))
    /\ rank' = topRanks(collected')
    /\ pc' = "searched"
    /\ UNCHANGED <<query, text, relevanceScore, documents, sectionTitle, snippet, window,
                   rulesVars, serverVars>>

Next == CalculateRelevanceScore \/ PerformAdvancedSearch

Spec == Init /\ [][Next]_vars

\* A call of extractRelevantSnippet is pending.
InitSnippet ==
    /\ pc = "snippet"
    /\ \/ text \in SnippetTexts /\ queryTerms \in SnippetTermLists
       \/ text \in RepeatTexts /\ queryTerms \in RepeatTermLists
    /\ sectionTitle \in SnippetTitles
    /\ query = <<>>
    /\ relevanceScore = Zero
    /\ documents = <<>>
    /\ searchResults = <<>>
    /\ collected = <<>>
    /\ rank = <<>>
    /\ snippet = <<>>
    /\ window = NoWindow
    /\ RulesIdle
    /\ ServerIdle

ExtractRelevantSnippet ==
    /\ pc = "snippet"
    /\ window' = snippetWindow(text, queryTerms)
    /\ snippet' = formatSnippet(text, window', sectionTitle)
    /\ pc' = "extracted"
    /\ UNCHANGED <<query, queryTerms, text, relevanceScore, documents, searchResults,
                   collected, rank, sectionTitle, rulesVars, serverVars>>

NextSnippet == ExtractRelevantSnippet

SpecSnippet == InitSnippet /\ [][NextSnippet]_vars

\* A call of performAdvancedSearch on a document with long paragraphs is pending.
InitPhrase ==
    /\ pc = "search"
    /\ query \in PhraseQueries
    /\ documents \in PhraseCorpora
    /\ queryTerms = <<>>
    /\ text = <<>>
    /\ relevanceScore = Zero
    /\ searchResults = <<>>
    /\ collected = <<>>
    /\ rank = <<>>
    /\ sectionTitle = <<>>
    /\ snippet = <<>>
    /\ window = NoWindow
    /\ RulesIdle
    /\ ServerIdle

NextPhrase == PerformAdvancedSearch

SpecPhrase == InitPhrase /\ [][NextPhrase]_vars

\* A call of getDocumentWorkflow is pending.
InitWorkflow ==
    /\ pc = "workflow"
    /\ \/ byteRules \in RulesFiles /\ requestedType \in RequestedTypes
       \/ /\ byteRules \in StandardRulesFiles
          /\ requestedType \in {StandardTypes[n].type : n \in 1..Len(StandardTypes)}
    /\ workflow = NoWorkflow
    /\ templates = <<>>
    /\ now = Epoch
    /\ analysis = NoAnalysis
    /\ documents = <<>>
    /\ SearchIdle
    /\ ServerIdle

\* A call of createDocumentTemplate is pending.
InitTemplate ==
    /\ pc = "template"
    /\ byteRules \in TemplateRulesFiles
    /\ requestedType \in RequestedTypes
    /\ now \in Times
    /\ workflow = NoWorkflow
    /\ templates = <<>>
    /\ analysis = NoAnalysis
    /\ documents = <<>>
    /\ SearchIdle
    /\ ServerIdle

\* A call of analyzeDocumentConsistency is pending.
InitAnalysis ==
    /\ pc = "analyze"
    /\ byteRules \in AnalysisRulesFiles
    /\ documents \in AnalysisCorpora
    /\ now \in Times
    /\ requestedType = <<>>
    /\ workflow = NoWorkflow
    /\ templates = <<>>
    /\ analysis = NoAnalysis
    /\ SearchIdle
    /\ ServerIdle

InitRules == InitWorkflow \/ InitTemplate \/ InitAnalysis

GetDocumentWorkflow ==
    /\ pc = "workflow"
    /\ workflow' = getDocumentWorkflow(byteRules, requestedType)
    /\ pc' = "workflowed"
    /\ UNCHANGED <<byteRules, requestedType, templates, now, analysis, documents, searchVars,
                   serverVars>>

\* A call of createDocumentTemplate at the instant now; the next call, if there
\* is one, is made at that instant or later.
CreateDocumentTemplate ==
    /\ pc = "template"
    /\ templates' = Append(templates,
                           [at |-> now,
                            content |-> createDocumentTemplate(byteRules, requestedType, now)])
    /\ now' \in NotBefore(now)
    /\ pc' = IF Len(templates') < MaxCalls THEN "template" ELSE "templated"
    /\ UNCHANGED <<byteRules, requestedType, workflow, analysis, documents, searchVars,
                   serverVars>>

AnalyzeDocumentConsistency ==
    /\ pc = "analyze"
    /\ analysis' = analyzeDocumentConsistency(byteRules, documents, now)
    /\ pc' = "analyzed"
    /\ UNCHANGED <<byteRules, requestedType, workflow, templates, now, documents, searchVars,
                   serverVars>>

\* The key of a document type in the corpus.
DocTypeOf(type) ==
    IF \E known \in KnownTypes : NameOf[known] = type
    THEN CHOOSE known \in KnownTypes : NameOf[known] = type
    ELSE "other"

\* A call of analyzeDocumentConsistency on a directory whose only document is
\* the template that was built last, held under the type it was built for.
AnalyzeTemplate ==
    /\ pc = "templated"
    /\ documents' = <<[docType |-> DocTypeOf(requestedType),
                       content |-> templates[Len(templates)].content]>>
    /\ analysis' = analyzeDocumentConsistency(byteRules, documents', now)
    /\ pc' = "analyzed"
    /\ UNCHANGED <<byteRules, requestedType, workflow, templates, now, searchVars,
                   serverVars>>

NextRules ==
    \/ GetDocumentWorkflow
    \/ CreateDocumentTemplate
    \/ AnalyzeDocumentConsistency
    \/ AnalyzeTemplate

SpecRules == InitRules /\ [][NextRules]_vars

----------------------------------------------------------------------------
(* The server: its tools and its document resource *)

\* The tools, and the resource as a seventh kind of request.
INITIALIZE == "initialize_memory_bank"
UPDATE == "update_document"
QUERY == "query_memory_bank"
EXPORT == "export_memory_bank"
RESOURCE == "memory_bank_document"

\* Object.keys of the documents that generateAllDocuments returns, which are
\* the values of the documentType enum of update_document.
DocumentTypes ==
    <<"projectbrief", "productContext", "systemPatterns", "techContext",
      "activeContext", "progress">>

\* path.join(baseDir, 'memory-bank')
memoryBankDirOf(location) == <<location, "memory-bank">>

\* path.join(dir, name)
pathOf(dir, name) == [dir |-> dir, name |-> name]

\* path.join(dir, `${documentType}.md`)
documentPath(dir, documentType) == pathOf(dir, documentType)

BYTERULES_FILE == ".byterules"
README_FILE == "README.md"

\* Contents of files, as the sequences of their parts.
BYTERULES_TEXT == <<"# Memory Bank Document Orchestration Standard">>
README_TEXT == <<"# Memory Bank">>
generated(documentType) == <<"generated", documentType>>
\* `# ${documentType}\n\n`
updatePlaceholder(documentType) == <<"# ", documentType>>
\* `# ${documentType}\n\nThis document has not been created yet.`
readPlaceholder(documentType) ==
    <<"# ", documentType, "This document has not been created yet.">>
\* `${currentContent}\n\n## Update\nThis document was regenerated on ${englishDate}.`
regenerated(currentContent) == currentContent \o <<"## Update">>

\* The messages of the replies.
NOT_INITIALIZED ==
    "Memory Bank not initialized. Please use initialize_memory_bank tool first."
NOT_INITIALIZED_INFO ==
    "Memory Bank not initialized. Please use 'initialize_memory_bank' tool first."
NOT_FOUND_INFO ==
    "Memory Bank directory not found on disk. Please use 'initialize_memory_bank' tool first."
CONTENT_REQUIRED == "Content must be provided or regenerate=true"
PARENT_FAILED == "Cannot create or access parent directory"
GENERATION_FAILED == "Failed to generate document content"
READ_FAILED == "Failed to read document: Document not found"
CREATED == "Memory Bank successfully created!"
UPDATED == "document successfully updated!"
RESULTS == "Results for query"
NO_RESULTS == "No results found for query"
EXPORTED == "Memory Bank successfully exported"

NoReply == [isError |-> FALSE, text |-> "", location |-> Null, contents |-> <<>>]

\* A reply of a tool, and the error that the resource handler throws.
reply(message) == [NoReply EXCEPT !.text = message]
errorReply(message) == [NoReply EXCEPT !.isError = TRUE, !.text = message]

\* Mutant: the check of MEMORY_BANK_DIR always passes.
isInitializedAlways(dir) == TRUE

\* MEMORY_BANK_DIR is set: the negation of !MEMORY_BANK_DIR
isInitialized(dir) == dir # Null

\* The reply of a handler that finds MEMORY_BANK_DIR unset.
notInitialized(tool) ==
    IF tool \in {UPDATE, RESOURCE}
    THEN errorReply(NOT_INITIALIZED)
    ELSE reply(NOT_INITIALIZED_INFO)

\* fs.pathExists
pathExists(path) == path \in DOMAIN files

\* fs.writeFile: the disk after content is written to path.
writeFile(path, content) == (path :> content) @@ files

\* fs.ensureFile: the disk after path is created as an empty file, if it is not there.
ensureFile(path) == IF pathExists(path) THEN files ELSE (path :> <<>>) @@ files

\* A call that was not started yet.  dir, exists, index and content are the
\* locals of the handler; dirAtStart, completed, touched and wrote are ghosts:
\* MEMORY_BANK_DIR and the calls that had returned when the call arrived,
\* whether the call used the disk, and the paths it created or wrote.
NoCall ==
    [at |-> "pending", dir |-> Null, exists |-> FALSE, index |-> 0, content |-> <<>>,
     result |-> NoReply, dirAtStart |-> Null, completed |-> {}, before |-> <<>>,
     touched |-> FALSE, wrote |-> {}]

Returned == {c \in 1..Len(calls) : calls[c].at = "done"}

\* The numbers of the requests of a run.
CallIds == {1, 2, 3}

\* Request c arrives: the requests arrive in their order.
Arrives(c, tool) ==
    /\ c \in DOMAIN requests
    /\ requests[c].tool = tool
    /\ calls[c].at = "pending"
    /\ c > 1 => calls[c - 1].at # "pending"

\* The call as it is when its request has arrived.
arrived(c) ==
    [calls[c] EXCEPT !.dirAtStart = MEMORY_BANK_DIR, !.completed = Returned]

\* The call continues at the given place.
Continues(c, tool, at) ==
    /\ c \in DOMAIN requests
    /\ requests[c].tool = tool
    /\ calls[c].at = at

returns(call, result) == [call EXCEPT !.at = "done", !.result = result]

\* The server runs, and nothing but the server.
Serves ==
    /\ pc = "serve"
    /\ UNCHANGED <<pc, documents, searchVars, rulesVars>>

\*** initialize_memory_bank

\* The handler up to await fs.ensureDir(parentDir), which may throw.
InitializeMemoryBank(c) ==
    /\ Serves
    /\ Arrives(c, INITIALIZE)
    /\ \E throws \in BOOLEAN :
        calls' = [calls EXCEPT ![c] =
            IF throws
            THEN returns(arrived(c), errorReply(PARENT_FAILED))
            ELSE [arrived(c) EXCEPT !.at = "parentEnsured",
                                    !.dir = memoryBankDirOf(requests[c].location)]]
    /\ UNCHANGED <<MEMORY_BANK_DIR, directories, files, requests>>

\* MEMORY_BANK_DIR = memoryBankDir; await fs.ensureDir(MEMORY_BANK_DIR)
InitializeSetDirectory(c) ==
    /\ Serves
    /\ Continues(c, INITIALIZE, "parentEnsured")
    /\ MEMORY_BANK_DIR' = calls[c].dir
    /\ directories' = directories \cup {calls[c].dir}
    /\ calls' = [calls EXCEPT ![c].at = "directoryEnsured", ![c].touched = TRUE]
    /\ UNCHANGED <<files, requests>>

\* byterulesDest = path.join(MEMORY_BANK_DIR, '.byterules'), then the search
\* for the rules template with await fs.pathExists(testPath).
InitializeSeekRules(c) ==
    /\ Serves
    /\ Continues(c, INITIALIZE, "directoryEnsured")
    /\ calls' = [calls EXCEPT ![c].at = "rulesSought", ![c].dir = MEMORY_BANK_DIR]
    /\ UNCHANGED <<MEMORY_BANK_DIR, directories, files, requests>>

\* await fs.copy(testPath, byterulesDest), or await fs.writeFile(byterulesDest,
\* defaultByterules): the rules are written to byterulesDest.
InitializeWriteRules(c) ==
    /\ Serves
    /\ Continues(c, INITIALIZE, "rulesSought")
    /\ files' = writeFile(pathOf(calls[c].dir, BYTERULES_FILE), BYTERULES_TEXT)
    /\ calls' = [calls EXCEPT ![c].at = "rulesWritten",
                              ![c].wrote = @ \cup {pathOf(calls[c].dir, BYTERULES_FILE)}]
    /\ UNCHANGED <<MEMORY_BANK_DIR, directories, requests>>

\* createMemoryBankStructure(MEMORY_BANK_DIR) up to await fs.pathExists(outputDir)
InitializeStructure(c) ==
    /\ Serves
    /\ Continues(c, INITIALIZE, "rulesWritten")
    /\ calls' = [calls EXCEPT ![c].at = "structureChecked",
                              ![c].dir = MEMORY_BANK_DIR,
                              ![c].exists = MEMORY_BANK_DIR \in directories]
    /\ UNCHANGED <<MEMORY_BANK_DIR, directories, files, requests>>

\* createMemoryBankStructure from there: await fs.ensureDir(outputDir) if the
\* directory was not found, then await fs.writeFile(readmePath, readmeContent).
InitializeReadme(c) ==
    /\ Serves
    /\ c \in DOMAIN requests
    /\ requests[c].tool = INITIALIZE
    /\ calls[c].at \in {"structureChecked", "structureEnsured"}
    /\ IF calls[c].at = "structureChecked" /\ ~calls[c].exists
       THEN /\ directories' = directories \cup {calls[c].dir}
            /\ calls' = [calls EXCEPT ![c].at = "structureEnsured"]
            /\ UNCHANGED files
       ELSE /\ files' = writeFile(pathOf(calls[c].dir, README_FILE), README_TEXT)
            /\ calls' = [calls EXCEPT ![c].at = "readmeWritten",
                                      ![c].wrote = @ \cup {pathOf(calls[c].dir, README_FILE)}]
            /\ UNCHANGED directories
    /\ UNCHANGED <<MEMORY_BANK_DIR, requests>>

\* await generateAllDocuments(goal), which throws when a request to the
\* language model fails.
InitializeGenerate(c) ==
    /\ Serves
    /\ Continues(c, INITIALIZE, "readmeWritten")
    /\ \E throws \in BOOLEAN :
        calls' = [calls EXCEPT ![c] =
            IF throws
            THEN returns(calls[c], errorReply(GENERATION_FAILED))
            ELSE [calls[c] EXCEPT !.at = "generated", !.index = 1]]
    /\ UNCHANGED <<MEMORY_BANK_DIR, directories, files, requests>>

\* The loop over the documents: filePath = path.join(MEMORY_BANK_DIR,
\* `${docType}.md`) and saveDocument up to await fs.ensureDir(path.dirname(filePath)).
InitializeSaveDocument(c) ==
    /\ Serves
    /\ Continues(c, INITIALIZE, "generated")
    /\ calls[c].index <= Len(DocumentTypes)
    /\ directories' = directories \cup {MEMORY_BANK_DIR}
    /\ calls' = [calls EXCEPT ![c].at = "saving", ![c].dir = MEMORY_BANK_DIR]
    /\ UNCHANGED <<MEMORY_BANK_DIR, files, requests>>

\* saveDocument from there: await fs.writeFile(filePath, content, 'utf-8')
InitializeWriteDocument(c) ==
    /\ Serves
    /\ Continues(c, INITIALIZE, "saving")
    /\ LET filePath == documentPath(calls[c].dir, DocumentTypes[calls[c].index])
       IN  /\ files' = writeFile(filePath, generated(DocumentTypes[calls[c].index]))
           /\ calls' = [calls EXCEPT ![c].at = "generated",
                                     ![c].index = @ + 1,
                                     ![c].wrote = @ \cup {filePath}]
    /\ UNCHANGED <<MEMORY_BANK_DIR, directories, requests>>

\* The loop is over: the reply names the location MEMORY_BANK_DIR.
InitializeReturn(c) ==
    /\ Serves
    /\ Continues(c, INITIALIZE, "generated")
    /\ calls[c].index > Len(DocumentTypes)
    /\ calls' = [calls EXCEPT ![c] =
                    returns(calls[c], [reply(CREATED) EXCEPT !.location = MEMORY_BANK_DIR])]
    /\ UNCHANGED <<MEMORY_BANK_DIR, directories, files, requests>>

\*** update_document

\* The handler up to await fs.pathExists(filePath)
UpdateDocument(c) ==
    /\ Serves
    /\ Arrives(c, UPDATE)
    /\ calls' = [calls EXCEPT ![c] =
        IF ~isInitialized(MEMORY_BANK_DIR)
        THEN returns(arrived(c), notInitialized(UPDATE))
        ELSE LET filePath == documentPath(MEMORY_BANK_DIR, requests[c].documentType)
             IN  [arrived(c) EXCEPT
                     !.at = "checked",
                     !.dir = MEMORY_BANK_DIR,
                     !.exists = pathExists(filePath),
                     !.before = IF pathExists(filePath) THEN <<files[filePath]>> ELSE <<>>,
                     !.touched = TRUE]]
    /\ UNCHANGED <<MEMORY_BANK_DIR, directories, files, requests>>

\* The file was not found: await fs.ensureFile(filePath)
UpdateEnsureFile(c) ==
    /\ Serves
    /\ Continues(c, UPDATE, "checked")
    /\ ~calls[c].exists
    /\ LET filePath == documentPath(calls[c].dir, requests[c].documentType)
       IN  /\ files' = ensureFile(filePath)
           /\ calls' = [calls EXCEPT ![c].at = "ensured", ![c].wrote = @ \cup {filePath}]
    /\ directories' = directories \cup {calls[c].dir}
    /\ UNCHANGED <<MEMORY_BANK_DIR, requests>>

\* await fs.writeFile(filePath, `# ${documentType}\n\n`, 'utf-8')
UpdateWritePlaceholder(c) ==
    /\ Serves
    /\ Continues(c, UPDATE, "ensured")
    /\ LET filePath == documentPath(calls[c].dir, requests[c].documentType)
       IN  /\ files' = writeFile(filePath, updatePlaceholder(requests[c].documentType))
           /\ calls' = [calls EXCEPT ![c].at = "placed", ![c].wrote = @ \cup {filePath}]
    /\ UNCHANGED <<MEMORY_BANK_DIR, directories, requests>>

\* The three branches behind the check of the file.  regenerate: readDocument
\* up to its await fs.pathExists(filePath).  content: saveDocument up to its
\* await fs.ensureDir.  Neither: the handler throws and replies with the error.
UpdateBranch(c) ==
    /\ Serves
    /\ c \in DOMAIN requests
    /\ requests[c].tool = UPDATE
    /\ \/ calls[c].at = "checked" /\ calls[c].exists
       \/ calls[c].at = "placed"
    /\ LET filePath == documentPath(calls[c].dir, requests[c].documentType)
           content == requests[c].content
       IN  IF requests[c].regenerate
           THEN /\ calls' = [calls EXCEPT ![c].at = "reading",
                                          ![c].exists = pathExists(filePath)]
                /\ UNCHANGED directories
           ELSE IF content.given /\ content.text # <<>>
           THEN /\ calls' = [calls EXCEPT ![c].at = "saving", ![c].content = content.text]
                /\ directories' = directories \cup {calls[c].dir}
           ELSE /\ calls' = [calls EXCEPT ![c] = returns(calls[c], errorReply(CONTENT_REQUIRED))]
                /\ UNCHANGED directories
    /\ UNCHANGED <<MEMORY_BANK_DIR, files, requests>>

\* readDocument from there: it throws if the file was not found, else
\* await fs.readFile(filePath, 'utf-8')
UpdateReadFile(c) ==
    /\ Serves
    /\ Continues(c, UPDATE, "reading")
    /\ LET filePath == documentPath(calls[c].dir, requests[c].documentType)
       IN  calls' = [calls EXCEPT ![c] =
               IF calls[c].exists /\ pathExists(filePath)
               THEN [calls[c] EXCEPT !.at = "read", !.content = files[filePath]]
               ELSE returns(calls[c], errorReply(READ_FAILED))]
    /\ UNCHANGED <<MEMORY_BANK_DIR, directories, files, requests>>

\* newContent is built from currentContent; saveDocument up to its
\* await fs.ensureDir
UpdateSaveRegenerated(c) ==
    /\ Serves
    /\ Continues(c, UPDATE, "read")
    /\ calls' = [calls EXCEPT ![c].at = "saving", ![c].content = regenerated(@)]
    /\ directories' = directories \cup {calls[c].dir}
    /\ UNCHANGED <<MEMORY_BANK_DIR, files, requests>>

\* saveDocument from there: await fs.writeFile(filePath, content, 'utf-8');
\* then the handler replies.
UpdateWriteDocument(c) ==
    /\ Serves
    /\ Continues(c, UPDATE, "saving")
    /\ LET filePath == documentPath(calls[c].dir, requests[c].documentType)
       IN  /\ files' = writeFile(filePath, calls[c].content)
           /\ calls' = [calls EXCEPT ![c] =
                  returns([calls[c] EXCEPT !.wrote = @ \cup {filePath}], reply(UPDATED))]
    /\ UNCHANGED <<MEMORY_BANK_DIR, directories, requests>>

\*** memory_bank_document

\* The handler up to await fs.pathExists(filePath)
ReadResource(c) ==
    /\ Serves
    /\ Arrives(c, RESOURCE)
    /\ calls' = [calls EXCEPT ![c] =
        IF ~isInitialized(MEMORY_BANK_DIR)
        THEN returns(arrived(c), notInitialized(RESOURCE))
        ELSE LET filePath == documentPath(MEMORY_BANK_DIR, requests[c].documentType)
             IN  [arrived(c) EXCEPT
                     !.at = "checked",
                     !.dir = MEMORY_BANK_DIR,
                     !.exists = pathExists(filePath),
                     !.before = IF pathExists(filePath) THEN <<files[filePath]>> ELSE <<>>,
                     !.touched = TRUE]]
    /\ UNCHANGED <<MEMORY_BANK_DIR, directories, files, requests>>

\* The file was not found: await fs.ensureFile(filePath)
ResourceEnsureFile(c) ==
    /\ Serves
    /\ Continues(c, RESOURCE, "checked")
    /\ ~calls[c].exists
    /\ LET filePath == documentPath(calls[c].dir, requests[c].documentType)
       IN  /\ files' = ensureFile(filePath)
           /\ calls' = [calls EXCEPT ![c].at = "ensured", ![c].wrote = @ \cup {filePath}]
    /\ directories' = directories \cup {calls[c].dir}
    /\ UNCHANGED <<MEMORY_BANK_DIR, requests>>

\* await fs.writeFile(filePath, `# ${documentType}\n\nThis document has not
\* been created yet.`, 'utf-8')
ResourceWritePlaceholder(c) ==
    /\ Serves
    /\ Continues(c, RESOURCE, "ensured")
    /\ LET filePath == documentPath(calls[c].dir, requests[c].documentType)
       IN  /\ files' = writeFile(filePath, readPlaceholder(requests[c].documentType))
           /\ calls' = [calls EXCEPT ![c].at = "placed", ![c].wrote = @ \cup {filePath}]
    /\ UNCHANGED <<MEMORY_BANK_DIR, directories, requests>>

\* readDocument up to its await fs.pathExists(filePath)
ResourceReadDocument(c) ==
    /\ Serves
    /\ c \in DOMAIN requests
    /\ requests[c].tool = RESOURCE
    /\ \/ calls[c].at = "checked" /\ calls[c].exists
       \/ calls[c].at = "placed"
    /\ calls' = [calls EXCEPT
           ![c].at = "reading",
           ![c].exists = pathExists(documentPath(calls[c].dir, requests[c].documentType))]
    /\ UNCHANGED <<MEMORY_BANK_DIR, directories, files, requests>>

\* readDocument from there, and the reply with the content
ResourceReadFile(c) ==
    /\ Serves
    /\ Continues(c, RESOURCE, "reading")
    /\ LET filePath == documentPath(calls[c].dir, requests[c].documentType)
       IN  calls' = [calls EXCEPT ![c] =
               IF calls[c].exists /\ pathExists(filePath)
               THEN returns(calls[c], [NoReply EXCEPT !.contents = <<files[filePath]>>])
               ELSE returns(calls[c], errorReply(READ_FAILED))]
    /\ UNCHANGED <<MEMORY_BANK_DIR, directories, files, requests>>

\*** query_memory_bank and export_memory_bank

\* Either handler up to await fs.pathExists(MEMORY_BANK_DIR)
QueryOrExport(c) ==
    /\ Serves
    /\ \/ Arrives(c, QUERY)
       \/ Arrives(c, EXPORT)
    /\ calls' = [calls EXCEPT ![c] =
        IF ~isInitialized(MEMORY_BANK_DIR)
        THEN returns(arrived(c), notInitialized(requests[c].tool))
        ELSE [arrived(c) EXCEPT !.at = "checked",
                                !.exists = MEMORY_BANK_DIR \in directories,
                                !.touched = TRUE]]
    /\ UNCHANGED <<MEMORY_BANK_DIR, directories, files, requests>>

\* query_memory_bank from there: readAllDocuments(MEMORY_BANK_DIR) and the
\* search, which finds something or nothing.
QueryMemoryBank(c) ==
    /\ Serves
    /\ Continues(c, QUERY, "checked")
    /\ \E message \in {RESULTS, NO_RESULTS} :
        calls' = [calls EXCEPT ![c] =
            IF calls[c].exists
            THEN returns(calls[c], reply(message))
            ELSE returns(calls[c], reply(NOT_FOUND_INFO))]
    /\ UNCHANGED <<MEMORY_BANK_DIR, directories, files, requests>>

\* export_memory_bank from there: exportMemoryBank(MEMORY_BANK_DIR, format,
\* targetOutputPath), which writes outside the Memory Bank directory.
ExportMemoryBank(c) ==
    /\ Serves
    /\ Continues(c, EXPORT, "checked")
    /\ calls' = [calls EXCEPT ![c] =
           IF calls[c].exists
           THEN returns(calls[c], reply(EXPORTED))
           ELSE returns(calls[c], reply(NOT_FOUND_INFO))]
    /\ UNCHANGED <<MEMORY_BANK_DIR, directories, files, requests>>

\*** The requests

Locations == {"/a", "/b"}

NoContent == [given |-> FALSE, text |-> <<>>]

NoRequest ==
    [tool |-> "", location |-> "", documentType |-> "", content |-> NoContent,
     regenerate |-> FALSE]

InitializeRequests ==
    {[NoRequest EXCEPT !.tool = INITIALIZE, !.location = location] : location \in Locations}

\* update_document for progress: with a content, to regenerate, with the empty
\* string as content, and with neither.
UpdateRequests ==
    {[NoRequest EXCEPT !.tool = UPDATE, !.documentType = "progress",
                       !.content = content, !.regenerate = regenerate] :
        content \in {NoContent, [given |-> TRUE, text |-> <<>>],
                     [given |-> TRUE, text |-> <<"# Progress">>]},
        regenerate \in BOOLEAN}

OtherRequests ==
    {[NoRequest EXCEPT !.tool = RESOURCE, !.documentType = "progress"],
     [NoRequest EXCEPT !.tool = QUERY],
     [NoRequest EXCEPT !.tool = EXPORT]}

Requests == InitializeRequests \cup UpdateRequests \cup OtherRequests

\* The operations on a document: an update with a content, a regeneration
\* and a read of the resource.
DocumentRequests ==
    {r \in UpdateRequests : r.content.text # <<>> /\ ~r.regenerate}
    \cup {r \in UpdateRequests : ~r.content.given /\ r.regenerate}
    \cup {r \in OtherRequests : r.tool = RESOURCE}

\* One request; two requests; an initialization followed by two operations
\* on a document; two initializations followed by one.
Workloads ==
    {<<r>> : r \in Requests}
    \cup {<<r1, r2>> : r1 \in Requests, r2 \in Requests}
    \cup {<<r1, r2, r3>> :
             r1 \in InitializeRequests, r2 \in DocumentRequests, r3 \in DocumentRequests}
    \cup {w \in {<<r1, r2, r3>> : r1 \in InitializeRequests, r2 \in InitializeRequests,
                                     r3 \in DocumentRequests} :
             w[1].location # w[2].location}

InitServer ==
    /\ pc = "serve"
    /\ MEMORY_BANK_DIR = Null
    /\ directories = {}
    /\ files = <<>>
    /\ requests \in Workloads
    /\ calls = [c \in 1..Len(requests) |-> NoCall]
    /\ documents = <<>>
    /\ SearchIdle
    /\ RulesIdle

NextServer ==
    \E c \in CallIds :
        \/ InitializeMemoryBank(c)
        \/ InitializeSetDirectory(c)
        \/ InitializeSeekRules(c)
        \/ InitializeWriteRules(c)
        \/ InitializeStructure(c)
        \/ InitializeReadme(c)
        \/ InitializeGenerate(c)
        \/ InitializeSaveDocument(c)
        \/ InitializeWriteDocument(c)
        \/ InitializeReturn(c)
        \/ UpdateDocument(c)
        \/ UpdateEnsureFile(c)
        \/ UpdateWritePlaceholder(c)
        \/ UpdateBranch(c)
        \/ UpdateReadFile(c)
        \/ UpdateSaveRegenerated(c)
        \/ UpdateWriteDocument(c)
        \/ ReadResource(c)
        \/ ResourceEnsureFile(c)
        \/ ResourceWritePlaceholder(c)
        \/ ResourceReadDocument(c)
        \/ ResourceReadFile(c)
        \/ QueryOrExport(c)
        \/ QueryMemoryBank(c)
        \/ ExportMemoryBank(c)

SpecServer == InitServer /\ [][NextServer]_vars

----------------------------------------------------------------------------
(* Properties of the search engine and the scorer *)

ScoreOf(i) == searchResults[i].relevanceScore

LowerText == toLowerCase(text)
LowerQuery == toLowerCase(query)

\* The query occurs verbatim (case-insensitively) in the paragraph.
Verbatim == includes(LowerText, LowerQuery)

AllTermsAbsent == \A k \in 1..Len(queryTerms) : ~includes(LowerText, queryTerms[k])
AllTermsPresent == \A k \in 1..Len(queryTerms) : includes(LowerText, queryTerms[k])

\* The paragraphs the search visits that score above the threshold.
Qualifying ==
    LET units == visited(documents)
    IN  {u \in 1..Len(units) :
            RatLt(Rat(3, 10),
                  calculateRelevanceScore(query, TermsOf(query), units[u].paragraph))}

\* C1: search returns at most 5 hits, ordered by non-increasing relevanceScore.
C1_AtMostFiveSorted ==
    pc = "searched" =>
        /\ Len(searchResults) <= 5
        /\ \A i, j \in 1..Len(searchResults) :
              i < j => RatLe(ScoreOf(j), ScoreOf(i))

\* More than five paragraphs qualified, five were returned, and not all with
\* the same score.
C1_Witness ==
    /\ pc = "searched"
    /\ Len(collected) > 5
    /\ Len(searchResults) = 5
    /\ RatLt(ScoreOf(5), ScoreOf(1))

\* C2: every hit of a search has a score s with 0.3 < s <= 1.0, and no call of
\* the scorer, whatever the query, term list and paragraph, returns more than 1.0.
C2_ScoreRange ==
    /\ pc = "searched" =>
          \A i \in 1..Len(searchResults) :
              RatLt(Rat(3, 10), ScoreOf(i)) /\ RatLe(ScoreOf(i), One)
    /\ pc = "scored" => RatLe(relevanceScore, One)

\* A search that dropped a paragraph scoring below the threshold but above 0
\* and returned hits, one of them with a score below 1.0.
C2_Witness ==
    /\ pc = "searched"
    /\ \E i \in 1..Len(searchResults) : RatLt(ScoreOf(i), One)
    /\ \E u \in 1..Len(visited(documents)) :
          LET score == calculateRelevanceScore(query, queryTerms,
                                               visited(documents)[u].paragraph)
          IN  RatLt(Zero, score) /\ RatLe(score, Rat(3, 10))

\* C3: a paragraph that contains the query verbatim (case-insensitively) scores
\* exactly 1.0, whatever the term list is.
C3_VerbatimScoresOne ==
    (pc = "scored" /\ Verbatim) => RatEq(relevanceScore, One)

\* A verbatim match that differs from the query in case, scored with a term
\* list that is not matched in full.
C3_Witness ==
    /\ pc = "scored"
    /\ Verbatim
    /\ query # <<>>
    /\ ~includes(text, query)
    /\ ~AllTermsPresent
    /\ RatEq(relevanceScore, One)

\* C4 as claimed: a score of exactly 1.0 is only given to a paragraph that
\* contains the full query verbatim.
C4_OneOnlyIfVerbatim ==
    (pc = "scored" /\ queryTerms = TermsOf(query) /\ RatEq(relevanceScore, One))
        => Verbatim

\* C4 (amended): a score of exactly 1.0 is only given to a paragraph that contains
\* the full query verbatim, or that contains every term of a query with at least
\* two terms (0.8 * n/n + 0.2).
C4_OneOnlyIfVerbatimOrAllTerms ==
    (pc = "scored" /\ queryTerms = TermsOf(query) /\ RatEq(relevanceScore, One))
        => (Verbatim \/ (Len(queryTerms) >= 2 /\ AllTermsPresent))

\* A paragraph with all the terms of the query, in another order than the query.
C4_Witness ==
    /\ pc = "scored"
    /\ queryTerms = TermsOf(query)
    /\ RatEq(relevanceScore, One)
    /\ ~Verbatim
    /\ Len(queryTerms) >= 2

\* C5 as claimed: when none of the query's terms occurs in the paragraph (also
\* when the query has no terms), the score is 0.
C5_NoTermNoScore ==
    (pc = "scored" /\ queryTerms = TermsOf(query) /\ AllTermsAbsent)
        => RatEq(relevanceScore, Zero)

\* C5 (amended): when none of the query's terms occurs in the paragraph (also
\* when the query has no terms) and the paragraph does not contain the query
\* verbatim, the score is 0; when it does contain it, as every paragraph
\* contains the empty query, the score is 1.0.
C5_NoTermNoScoreUnlessVerbatim ==
    (pc = "scored" /\ queryTerms = TermsOf(query) /\ AllTermsAbsent)
        => RatEq(relevanceScore, IF Verbatim THEN One ELSE Zero)

\* A query with terms, none of them in the paragraph, scored 0.
C5_Witness ==
    /\ pc = "scored"
    /\ queryTerms = TermsOf(query)
    /\ queryTerms # <<>>
    /\ AllTermsAbsent
    /\ ~Verbatim
    /\ RatEq(relevanceScore, Zero)

\* C6: with N qualifying paragraphs the search returns min(5, N) of them, no
\* omitted qualifying paragraph scores higher than a returned one, and the
\* result is the empty sequence when N = 0.
C6_BestQualifying ==
    pc = "searched" =>
        LET N == Cardinality(Qualifying)
            returned == {rank[i] : i \in 1..Len(rank)}
        IN  /\ Len(collected) = N
            /\ Len(searchResults) = Min(5, N)
            /\ Len(rank) = Len(searchResults)
            /\ Cardinality(returned) = Len(rank)
            /\ \A i \in 1..Len(rank) :
                  rank[i] \in 1..N /\ searchResults[i] = collected[rank[i]]
            /\ \A o \in (1..N) \ returned : \A i \in 1..Len(searchResults) :
                  RatLe(collected[o].relevanceScore, ScoreOf(i))
            /\ (N = 0 => searchResults = <<>>)

\* More than five paragraphs qualified and one that was left out scores less
\* than a returned one.
C6_Witness ==
    /\ pc = "searched"
    /\ Cardinality(Qualifying) > 5
    /\ \E o \in 1..Len(collected) :
          /\ \A i \in 1..Len(rank) : rank[i] # o
          /\ RatLt(collected[o].relevanceScore, ScoreOf(1))

\* No paragraph qualified although the corpus has paragraphs and the query terms.
C6_WitnessNone ==
    /\ pc = "searched"
    /\ queryTerms # <<>>
    /\ visited(documents) # <<>>
    /\ searchResults = <<>>

\* C7: hits with equal score are returned in encounter order.
C7_TiesInEncounterOrder ==
    pc = "searched" =>
        /\ Len(rank) = Len(searchResults)
        /\ \A i \in 1..Len(rank) : searchResults[i] = collected[rank[i]]
        /\ \A i, j \in 1..Len(rank) :
              (i < j /\ RatEq(ScoreOf(i), ScoreOf(j))) => rank[i] < rank[j]

\* Two hits tie behind a hit that was encountered after the first of them.
C7_Witness ==
    /\ pc = "searched"
    /\ \E i, j, k \in 1..Len(rank) :
          /\ i < j /\ j < k
          /\ RatEq(ScoreOf(j), ScoreOf(k))
          /\ rank[j] < rank[k]
          /\ rank[j] < rank[i]

C9_EmptyInputsScoreZero ==
    (pc = "scored" /\ (queryTerms = <<>> \/ text = <<>>))
        => RatEq(relevanceScore, Zero)

\* C9 (amended): whenever the term list is empty or the paragraph is empty, the
\* score is 0 unless the paragraph contains the query verbatim, as every
\* paragraph, the empty one too, contains the empty query; it is 1.0 then.
C9_EmptyInputsScoreZeroUnlessVerbatim ==
    (pc = "scored" /\ (queryTerms = <<>> \/ text = <<>>))
        => RatEq(relevanceScore, IF Verbatim THEN One ELSE Zero)

\* An empty term list with a paragraph that is not empty, scored 0.
C9_Witness ==
    /\ pc = "scored"
    /\ queryTerms = <<>>
    /\ query # <<>>
    /\ text # <<>>
    /\ ~Verbatim
    /\ RatEq(relevanceScore, Zero)

\* The number of distinct terms of the query's term list that occur in the
\* lower-cased paragraph.
DistinctMatchCount ==
    Cardinality({queryTerms[k] : k \in {j \in 1..Len(queryTerms) :
                                            includes(LowerText, queryTerms[j])}})

\* C19 as claimed: when the paragraph does not contain the query verbatim, the
\* score is 0.8 * matchCount / len(terms) + (0.2 if matchCount >= 2), where
\* matchCount counts the distinct terms that occur in the paragraph, a repeated
\* term once.
C19_DistinctTermsCounted ==
    (pc = "scored" /\ queryTerms = TermsOf(query) /\ queryTerms # <<>> /\ ~Verbatim)
        => RatEq(relevanceScore,
                 Rat(8 * DistinctMatchCount
                       + (IF DistinctMatchCount >= 2 THEN 2 ELSE 0) * Len(queryTerms),
                     10 * Len(queryTerms)))

\* The paragraph of a visited unit begins with the first line of its section,
\* the line the title is taken from.
HoldsTitleLine(unit) == unit.index = 1 /\ firstLine(unit.paragraph) # <<>>

\* C20 as claimed: the first line of a section is its title only; it is not
\* among the paragraphs that are scored and yields no hit of its own (stated
\* for the queries that are not empty).
C20_TitleLineYieldsNoHit ==
    (pc = "searched" /\ query # <<>>) =>
        \A u \in 1..Len(visited(documents)) :
            HoldsTitleLine(visited(documents)[u]) => u \notin Qualifying

\* The visited paragraphs that contain the query verbatim (case-insensitively).
VerbatimUnits ==
    LET units == visited(documents)
    IN  {u \in 1..Len(units) : includes(toLowerCase(units[u].paragraph), LowerQuery)}

\* The hit produced for the qualifying paragraph u: hits are pushed in the order
\* the paragraphs are visited.
HitOf(u) == collected[Cardinality({v \in Qualifying : v <= u})]

\* Some occurrence of the query in the paragraph lies between 30 characters in
\* front of the best offset of the paragraph and 120 characters behind it.
PhraseInWindow(unit) ==
    LET best == bestPositionOf(unit.paragraph, queryTerms)
    IN  \E j \in occurrences(toLowerCase(unit.paragraph), LowerQuery) :
            best - 30 <= j /\ j + Len(query) <= best + 120

\* C11 as claimed: the hit produced for a paragraph that contains the query
\* verbatim has score 1.0 and its snippet contains the phrase, wherever the
\* phrase lies in the paragraph (stated for the queries that neither begin nor
\* end with whitespace).
C11_VerbatimHitShowsPhrase ==
    (pc = "searched" /\ trim(LowerQuery) = LowerQuery) =>
        \A u \in VerbatimUnits :
            /\ u \in Qualifying
            /\ RatEq(HitOf(u).relevanceScore, One)
            /\ includes(toLowerCase(HitOf(u).snippet), LowerQuery)

\* C11 (amended): the hit produced for a paragraph that contains the query
\* verbatim has score 1.0, and its snippet contains the phrase, less the
\* whitespace at the phrase's ends, whenever the paragraph is at most 120
\* characters long or an occurrence of the phrase lies between 30 characters in
\* front of the best offset and 120 characters behind it.
C11_VerbatimHitShowsPhraseInWindow ==
    pc = "searched" =>
        \A u \in VerbatimUnits :
            LET unit == visited(documents)[u]
            IN  /\ u \in Qualifying
                /\ HitOf(u).documentType = unit.docType
                /\ RatEq(HitOf(u).relevanceScore, One)
                /\ (Len(unit.paragraph) <= 120 \/ PhraseInWindow(unit))
                      => includes(toLowerCase(HitOf(u).snippet), trim(LowerQuery))

\* A paragraph longer than the window holds the phrase behind an occurrence of
\* one of the terms; the snippet is cut at its start and contains the phrase.
C11_Witness ==
    /\ pc = "searched"
    /\ Len(queryTerms) >= 2
    /\ \E u \in VerbatimUnits :
          LET unit == visited(documents)[u]
              lowerText == toLowerCase(unit.paragraph)
              w == snippetWindow(unit.paragraph, queryTerms)
          IN  /\ Len(unit.paragraph) > 120
              /\ w.startPos > 0
              /\ PhraseInWindow(unit)
              /\ \E k \in 1..Len(queryTerms) : \E j \in occurrences(lowerText, queryTerms[k]) :
                    j < least(occurrences(lowerText, LowerQuery))
              /\ RatEq(HitOf(u).relevanceScore, One)
              /\ includes(toLowerCase(HitOf(u).snippet), LowerQuery)

----------------------------------------------------------------------------
(* Properties of the snippet extractor *)

\* The offsets of the paragraph inside the window that trim() keeps.
Kept == {p \in window.startPos..(window.endPos - 1) : charAt(text, p) \notin WhiteSpace}

\* The first kept offset from p on, and the last one up to p.
RECURSIVE KeptFrom(_)
KeptFrom(p) == IF charAt(text, p) \notin WhiteSpace THEN p ELSE KeptFrom(p + 1)

RECURSIVE KeptUpTo(_)
KeptUpTo(p) == IF charAt(text, p) \notin WhiteSpace THEN p ELSE KeptUpTo(p - 1)

FirstKept == KeptFrom(window.startPos)
LastKept == KeptUpTo(window.endPos - 1)

\* The snippet is the title label, the ellipses of a cut window, and the
\* paragraph from its first kept character to its last.
SnippetIsKeptText ==
    snippet = (IF sectionTitle # <<>> THEN titleLabel(sectionTitle) ELSE <<>>)
              \o (IF window.startPos > 0 THEN Ellipsis ELSE <<>>)
              \o substring(text, FirstKept, LastKept + 1)
              \o (IF window.endPos < Len(text) THEN Ellipsis ELSE <<>>)

\* The characters of the paragraph next to the snippet's text both are in S or
\* outside the paragraph.
BoundedBy(S) ==
    /\ FirstKept = 0 \/ charAt(text, FirstKept - 1) \in S
    /\ LastKept = Len(text) - 1 \/ charAt(text, LastKept + 1) \in S

\* C10 as claimed: the character of the paragraph immediately before the
\* snippet's first non-ellipsis character and the character immediately after
\* its last one is a space, a newline, or outside the paragraph.
C10_NeverSplitsWord ==
    (pc = "extracted" /\ Kept # {}) =>
        SnippetIsKeptText /\ BoundedBy({" ", "\n"})

\* C10 (amended): the window is cut at a space, a newline or an end of the
\* paragraph, and the characters of the paragraph next to the snippet's first and
\* last non-ellipsis character are whitespace (a space, a newline, or whitespace
\* such as a tab that trim() removed) or outside the paragraph.
C10_NeverSplitsWordAtWhitespace ==
    (pc = "extracted" /\ Kept # {}) =>
        /\ SnippetIsKeptText
        /\ BoundedBy(WhiteSpace)
        /\ window.startPos = 0 \/ charAt(text, window.startPos) \in {" ", "\n"}
        /\ window.endPos = Len(text) \/ charAt(text, window.endPos) \in {" ", "\n"}

\* A snippet cut at both ends, out of the middle of the paragraph.
C10_Witness ==
    /\ pc = "extracted"
    /\ Kept # {}
    /\ window.startPos > 0
    /\ window.endPos < Len(text)
    /\ FirstKept > window.startPos
    /\ LastKept < Len(text) - 1

----------------------------------------------------------------------------
(* Properties of the file manager *)

\* The heading under which the rules describe a document type.
HeadingOf(type) ==
    IF type = TypeProgress THEN HeadingProgress
    ELSE IF type = TypeTechContext THEN HeadingTechContext
    ELSE IF type = TypeProjectBrief THEN HeadingProjectBrief
    ELSE <<>>

\* The rules file cannot be read at all.
Unreadable == ~byteRules.exists \/ ~byteRules.readable

\* The rules text has a section for the requested type.
Described ==
    /\ ~Unreadable
    /\ HeadingOf(requestedType) # <<>>
    /\ includes(byteRules.content, HeadingOf(requestedType))

\* C12: getDocumentWorkflow never raises; when the rules text has no section
\* for the requested type, or the rules file cannot be read at all, it returns
\* the generic purpose, "As needed", ["No specific structure defined"] and the
\* one command "update_document <type>", the type spelled as it was requested.
C12_FallbackNamesType ==
    (pc = "workflowed" /\ ~Described) =>
        /\ workflow.purpose = INFORMATION_ABOUT \o requestedType \o DOCUMENT_SUFFIX
        /\ workflow.updateTiming = AS_NEEDED
        /\ workflow.structure = <<NO_STRUCTURE>>
        /\ workflow.commands = <<UPDATE_DOCUMENT \o requestedType>>

\* The section of the rules that getDocumentWorkflow parses for the requested type.
SectionText ==
    sectionContentOf(byteRules.content, literalOf(replaceContext(requestedType)))

\* The lines of that section behind the line that holds the Structure label.
LinesBehindStructure ==
    LET lines == splitLines(SectionText)
        labelled == {k \in 1..Len(lines) : includes(lines[k], LABEL_STRUCTURE)}
    IN  SubSeq(lines, least(labelled) + 1, Len(lines))

\* A line that opens a field: it holds a label in bold with a colon behind it.
IsFieldLine(line) == includes(line, <<"*", "*", ":">>)

\* A bullet item: a dash behind optional indentation, and text behind the dash.
IsBulletItem(line) ==
    /\ trimStart(line) # <<>>
    /\ Head(trimStart(line)) = "-"
    /\ trim(Tail(trimStart(line))) # <<>>

BulletText(line) == trim(Tail(trimStart(line)))

\* The Structure bullet items of the section: the bullet items among the lines
\* behind the Structure label, up to the next field or the end of the section.
StructureBullets ==
    LET lines == LinesBehindStructure
        fields == {k \in 1..Len(lines) : IsFieldLine(lines[k])}
        last == IF fields = {} THEN Len(lines) ELSE least(fields) - 1
        bullets == SelectSeq(SubSeq(lines, 1, last), IsBulletItem)
    IN  [k \in 1..Len(bullets) |-> BulletText(bullets[k])]

\* The text between the Structure label and the next bold marker (or the end
\* of the section), cut into lines.
LinesUpToBold ==
    LET from == CHOOSE i \in 1..Len(SectionText) :
                    /\ litAt(SectionText, i, LABEL_STRUCTURE)
                    /\ \A j \in 1..(i - 1) : ~litAt(SectionText, j, LABEL_STRUCTURE)
        rest == SubSeq(SectionText, from + Len(LABEL_STRUCTURE), Len(SectionText))
        bold == {j \in 1..Len(rest) : litAt(rest, j, <<"*", "*">>)}
    IN  splitLines(IF bold = {} THEN rest ELSE SubSeq(rest, 1, least(bold) - 1))

\* The text of a line without its bullet marker, if it has one.
ItemText(line) ==
    IF trimStart(line) # <<>> /\ Head(trimStart(line)) = "-"
    THEN trim(Tail(trimStart(line)))
    ELSE trim(line)

NonBlank(line) == trim(line) # <<>> /\ ItemText(line) # <<>>

\* getDocumentWorkflow has parsed a section that holds a Structure label.
StructureParsed ==
    /\ pc = "workflowed"
    /\ Described
    /\ includes(SectionText, LABEL_STRUCTURE)

\* C17 (as claimed): the structure returned for a type lists the Structure
\* bullet items of the type's section in the order of the rules text, none
\* added, dropped or reordered.
C17_StructureListsBulletItems ==
    StructureParsed => workflow.structure = StructureBullets

\* C17 (amended): the structure returned for a type lists, in the order of the
\* rules text, every non-blank line between the Structure label and the next
\* bold marker or the end of the section, without its bullet marker: lines
\* that are no bullet items are listed too, and an item in bold ends the list.
C17_StructureListsLinesUpToBold ==
    StructureParsed =>
        LET lines == SelectSeq(LinesUpToBold, NonBlank)
        IN  workflow.structure = [k \in 1..Len(lines) |-> ItemText(lines[k])]

\* A section whose Structure field holds a bullet item and, behind it, a line
\* that is no bullet item was parsed: the structure has both, in that order.
C17_Witness ==
    /\ StructureParsed
    /\ Len(StructureBullets) = 1
    /\ Len(workflow.structure) = 2
    /\ workflow.structure[1] = StructureBullets[1]
    /\ workflow.structure # <<NO_STRUCTURE>>

\* The schema that createDocumentTemplate builds the template from.
Schema == getDocumentWorkflow(byteRules, requestedType)

StartsWith(s, prefix) == Len(s) >= Len(prefix) /\ SubSeq(s, 1, Len(prefix)) = prefix

\* The lines of a template: six lines of header (title, purpose and date, a
\* blank line behind each), four lines for every section (heading, blank,
\* placeholder, blank), the rule, a blank line and the note; the template ends
\* with a newline, which leaves an empty last piece.
WellFormedTemplate(content, date) ==
    LET lines == splitLines(content)
        count == Len(Schema.structure)
        headingAt(k) == 6 + 4 * (k - 1) + 1
        behind == 6 + 4 * count
    IN  /\ Len(lines) = behind + 4
        /\ lines[1] = TITLE_MARK \o trim(spaceCapitals(requestedType))
        /\ lines[3] = QUOTE_MARK \o Schema.purpose
        /\ lines[5] = QUOTE_MARK \o LAST_UPDATED \o date
        /\ \A k \in {2, 4, 6} : lines[k] = <<>>
        /\ \A k \in 1..count :
               /\ lines[headingAt(k)] = HEADING_MARK \o Schema.structure[k]
               /\ lines[headingAt(k) + 1] = <<>>
               /\ lines[headingAt(k) + 2] = PLACEHOLDER
               /\ lines[headingAt(k) + 3] = <<>>
        /\ {k \in 1..Len(lines) : StartsWith(lines[k], HEADING_MARK)}
               = {headingAt(k) : k \in 1..count}
        /\ lines[behind + 1] = RULE
        /\ lines[behind + 2] = <<>>
        /\ lines[behind + 3] = NOTE \o toLowerCase(Schema.updateTiming) \o <<".">>
        /\ lines[behind + 4] = <<>>

\* C18: a template holds exactly one "## <section>" heading with a placeholder
\* behind it for every entry of the schema's structure, in the order of the
\* schema, between the header (title, purpose, Last Updated) and the note on
\* the update timing; two calls on the same date give the same template.
C18_TemplateFollowsSchema ==
    /\ \A k \in 1..Len(templates) :
           WellFormedTemplate(templates[k].content, isoDate(templates[k].at))
    /\ \A j, k \in 1..Len(templates) :
           isoDate(templates[j].at) = isoDate(templates[k].at)
               => templates[j].content = templates[k].content

\* Two templates were built at different instants of one day from a schema
\* with two different sections: they are the same text, with two headings.
C18_Witness ==
    /\ pc = "templated"
    /\ Len(templates) >= 2
    /\ templates[1].at # templates[2].at
    /\ isoDate(templates[1].at) = isoDate(templates[2].at)
    /\ templates[1].content = templates[2].content
    /\ Len(Schema.structure) = 2
    /\ Schema.structure[1] # Schema.structure[2]
    /\ Cardinality({k \in 1..Len(splitLines(templates[1].content)) :
                       StartsWith(splitLines(templates[1].content)[k], HEADING_MARK)}) = 2

\* The documents of the corpus that are of a known type, in corpus order.
Known == SelectSeq(documents, IsKnown)

\* The sections that the rules require of a document.
Required(doc) == getDocumentWorkflow(byteRules, NameOf[doc.docType]).structure

\* The content has a "##" heading with the given name, whatever the case of
\* its letters.
HasHeading(content, name) ==
    \E i \in 1..Len(content) :
        /\ litAt(content, i, <<"#", "#">>)
        /\ \E blanks \in 0..wsRun(content, i + 2) :
               litAtIgnoreCase(content, i + 2 + blanks, name)

\* The required sections that a document lacks, in the order of the rules.
Lacking(doc) ==
    LET required == Required(doc)
        lacks(name) == ~HasHeading(doc.content, name)
    IN  SelectSeq(required, lacks)

\* The report has an entry for the k-th known document, with this status.
Reported(k, status) ==
    /\ k <= Len(analysis.entries)
    /\ analysis.entries[k].documentType = Known[k].docType
    /\ analysis.entries[k].status = status

\* C13: a document of a known type that lacks a required section is reported
\* as "needs-update", with a recommendation that lists exactly the sections
\* it lacks, whatever its Last Updated marker says (stated of the analyses
\* that return a report).
C13_LackingSectionsListed ==
    (pc = "analyzed" /\ ~analysis.threw) =>
        \A k \in 1..Len(Known) :
            Lacking(Known[k]) # <<>> =>
                /\ Reported(k, "needs-update")
                /\ analysis.entries[k].recommendation
                       = MISSING_SECTIONS \o joinComma(Lacking(Known[k]))

\* The days of a month of the Gregorian calendar.
DaysIn(year, month) ==
    IF month = 2
    THEN (IF year % 4 = 0 /\ (year % 100 # 0 \/ year % 400 = 0) THEN 29 ELSE 28)
    ELSE IF month \in {4, 6, 9, 11} THEN 30 ELSE 31

\* The content carries a Last Updated marker.
HasMarker(content) == lastUpdatedMatch(content).matched

\* The marker of the content names a day of the calendar.
MarkerIsDate(content) ==
    LET date == lastUpdatedMatch(content).date
        year == numberOf(SubSeq(date, 1, 4))
        month == numberOf(SubSeq(date, 6, 7))
        day == numberOf(SubSeq(date, 9, 10))
    IN  HasMarker(content) /\ month \in 1..12 /\ day \in 1..DaysIn(year, month)

\* The whole days from the date of the marker (its midnight, UTC) up to now.
MarkerAge(content) ==
    LET date == lastUpdatedMatch(content).date
    IN  now.day - daysFromCivil(numberOf(SubSeq(date, 1, 4)), numberOf(SubSeq(date, 6, 7)),
                                numberOf(SubSeq(date, 9, 10)))

\* The marker of the content names a date less than 30 days before now.
Fresh(content) == MarkerIsDate(content) /\ MarkerAge(content) < STALE_DAYS

\* C14: a document of a known type that has all its required sections is
\* reported as "good" if its Last Updated marker names a date less than 30
\* days before now, and as "needs-update" if the date is 30 or more days
\* before now or there is no marker.
C14_GoodIffFresh ==
    pc = "analyzed" =>
        \A k \in 1..Len(Known) :
            Lacking(Known[k]) = <<>> =>
                IF Fresh(Known[k].content)
                THEN Reported(k, "good")
                ELSE Reported(k, "needs-update")

\* C15: a document whose Last Updated marker names no date (month 13, day 45)
\* is reported as "needs-update", never as "good", and the analysis does not
\* fail on it.
C15_UnparseableDateNeedsUpdate ==
    (pc = "analyzed" /\ ~analysis.threw) =>
        \A k \in 1..Len(Known) :
            (HasMarker(Known[k].content) /\ ~MarkerIsDate(Known[k].content))
                => Reported(k, "needs-update")

\* C16: the report has exactly one entry for every document of a known type,
\* in corpus order, and none for any other document.
C16_OneEntryPerKnownDocument ==
    pc = "analyzed" =>
        [k \in 1..Len(analysis.entries) |-> analysis.entries[k].documentType]
            = [k \in 1..Len(Known) |-> Known[k].docType]

----------------------------------------------------------------------------
(* Properties of the snippet anchor *)

\* The terms of the list, each of them once, in the order of their first entry.
RECURSIVE distinctOf(_)
distinctOf(terms) ==
    IF terms = <<>> THEN <<>>
    ELSE LET front == distinctOf(SubSeq(terms, 1, Len(terms) - 1))
             last == terms[Len(terms)]
         IN  IF \E k \in 1..Len(front) : front[k] = last THEN front
             ELSE Append(front, last)

\* The smallest offset of the lower-cased paragraph whose window of LOOKAHEAD
\* characters holds the most distinct terms, 0 when no term occurs anywhere.
SmallestBestOffset ==
    LET lowerText == toLowerCase(text)
        length == Len(lowerText)
        terms == distinctOf(queryTerms)
        occ == occurrencesOfAll(lowerText, terms)
        distinctIn(i) ==
            Cardinality({k \in 1..Len(terms) :
                            windowIncludes(occ[k], Len(terms[k]), i, Min(i + LOOKAHEAD, length))})
        reached == {c \in 1..Len(terms) : \E i \in 0..(length - 1) : distinctIn(i) >= c}
    IN  IF reached = {} THEN 0
        ELSE least({i \in 0..(length - 1) : distinctIn(i) = greatest(reached)})

\* C21: the anchor of the snippet is the smallest offset of the lower-cased
\* paragraph whose 100-character window holds the largest number of distinct
\* query terms, and offset 0 when no term occurs anywhere.
C21_AnchorIsSmallestBestOffset ==
    pc = "extracted" => window.bestPosition = SmallestBestOffset

----------------------------------------------------------------------------
(* Properties of the Commands field *)

\* The token is quoted in back quotes somewhere in the text.
QuotedIn(content, token) == includes(content, <<TICK>> \o token \o <<TICK>>)

\* getDocumentWorkflow has parsed a section that holds a Commands label.
CommandsParsed ==
    /\ pc = "workflowed"
    /\ Described
    /\ includes(SectionText, LABEL_COMMANDS)

\* C22: every command returned for a section with a Commands field is a token
\* that the rules text quotes in back quotes; a line without such a token
\* contributes nothing.
C22_CommandsAreQuotedTokens ==
    CommandsParsed =>
        \A k \in 1..Len(workflow.commands) : QuotedIn(byteRules.content, workflow.commands[k])

----------------------------------------------------------------------------
(* Properties of the standard headings *)

\* The number of the requested type among the standard types, 0 for any other.
StandardNumber ==
    LET numbers == {n \in 1..Len(StandardTypes) : StandardTypes[n].type = requestedType}
    IN  IF numbers = {} THEN 0 ELSE least(numbers)

\* The rules hold the section of the requested type under its standard heading.
StandardlyDescribed ==
    /\ StandardNumber > 0
    /\ byteRules.readable
    /\ includes(byteRules.content, StandardSection(StandardNumber))

\* C23: for each of the six document types, getDocumentWorkflow finds the
\* section that the rules hold under the type's standard heading: it returns
\* the purpose written there, not the fallback.
C23_StandardHeadingLocated ==
    (pc = "workflowed" /\ StandardlyDescribed) =>
        /\ workflow.purpose = PURPOSE_OF \o requestedType
        /\ workflow # defaultWorkflow(requestedType)

----------------------------------------------------------------------------
(* Properties of the round trip from the template builder to the analyzer *)

\* The name consists of letters, digits and spaces.
PlainName(name) ==
    \A k \in 1..Len(name) :
        name[k] \in LowerCaseLetters \cup UpperCaseLetters \cup Digits \cup {" "}

\* The template built last was analyzed on the day it was built, it is of a
\* known type and the section names of its schema are plain.
TemplateAnalyzedSameDay ==
    /\ pc = "analyzed"
    /\ templates # <<>>
    /\ templates[Len(templates)].at.day = now.day
    /\ DocTypeOf(requestedType) \in KnownTypes
    /\ \A k \in 1..Len(Schema.structure) : PlainName(Schema.structure[k])

\* C29: a template analyzed on the day it was built, against the rules it
\* was built from, lacks no section and is reported as "good".
C29_TemplateIsGood ==
    TemplateAnalyzedSameDay =>
        /\ ~analysis.threw
        /\ Len(analysis.entries) = 1
        /\ analysis.entries[1].status = "good"
        /\ analysis.entries[1].recommendation = FOLLOWS_STRUCTURE

----------------------------------------------------------------------------
(* Properties of the threshold *)

\* The number of entries of the term list that occur in the paragraph.
MatchedTerms ==
    Cardinality({k \in 1..Len(queryTerms) : includes(LowerText, queryTerms[k])})

\* The scorer was called as performAdvancedSearch calls it, on a paragraph
\* that does not hold the query verbatim.
ScoredByTerms == pc = "scored" /\ queryTerms = TermsOf(query) /\ ~Verbatim

\* C30: a paragraph that does not hold the query verbatim and matches exactly
\* one of the n query terms is a hit if and only if n <= 2, with the scores
\* 0.8 and 0.4; for n >= 3 its score 0.8/n is below the threshold.  A
\* paragraph that matches two or more terms of at most 15 is always a hit.
C30_ThresholdArithmetic ==
    ScoredByTerms =>
        /\ MatchedTerms = 1 =>
              /\ aboveThreshold(relevanceScore) <=> Len(queryTerms) <= 2
              /\ RatEq(relevanceScore, Rat(8, 10 * Len(queryTerms)))
              /\ Len(queryTerms) = 1 => RatEq(relevanceScore, Rat(8, 10))
              /\ Len(queryTerms) = 2 => RatEq(relevanceScore, Rat(4, 10))
              /\ Len(queryTerms) >= 3 => RatLt(relevanceScore, Threshold)
        /\ (MatchedTerms >= 2 /\ Len(queryTerms) <= 15) => aboveThreshold(relevanceScore)

\* Two of fifteen terms matched, and one of three.
C30_Witness ==
    /\ ScoredByTerms
    /\ \/ Len(queryTerms) = 15 /\ MatchedTerms = 2 /\ aboveThreshold(relevanceScore)
       \/ Len(queryTerms) = 3 /\ MatchedTerms = 1 /\ ~aboveThreshold(relevanceScore)

----------------------------------------------------------------------------
(* Properties of the server *)

Calls == 1..Len(calls)

IsCall(c, tools) == requests[c].tool \in tools

Done(c) == calls[c].at = "done"

Succeeded(c) == Done(c) /\ ~calls[c].result.isError

\* The files that initialize_memory_bank creates in a Memory Bank directory.
CreatedFiles ==
    {BYTERULES_FILE, README_FILE} \cup {DocumentTypes[k] : k \in 1..Len(DocumentTypes)}

\* C24: an initialize_memory_bank call that has returned with success wrote
\* its .byterules, its README and its six documents into the memory-bank
\* directory under the location it was called with, also when another call
\* with another location ran interleaved with it.
C24_FilesUnderOwnLocation ==
    \A c \in Calls :
        (IsCall(c, {INITIALIZE}) /\ Succeeded(c)) =>
            calls[c].wrote = {pathOf(memoryBankDirOf(requests[c].location), name) :
                                 name \in CreatedFiles}

\* The content of a file, or <<>> for a file that is not there, wrapped as
\* the ghost "before" wraps it.
Stored(path) == IF pathExists(path) THEN <<files[path]>> ELSE <<>>

\* What a call leaves in its file when it runs alone on a file that holds
\* the given content.
aloneOn(stored, request) ==
    IF request.tool = RESOURCE
    THEN IF stored = <<>> THEN <<readPlaceholder(request.documentType)>> ELSE stored
    ELSE IF request.regenerate
    THEN IF stored = <<>>
         THEN <<regenerated(updatePlaceholder(request.documentType))>>
         ELSE <<regenerated(stored[1])>>
    ELSE <<request.content.text>>

RECURSIVE inOrder(_, _)
inOrder(stored, order) ==
    IF order = <<>> THEN stored
    ELSE inOrder(aloneOn(stored, requests[Head(order)]), Tail(order))

\* The orders of a set of calls.
Orders(S) ==
    {order \in [1..Cardinality(S) -> S] :
        \A i, j \in 1..Cardinality(S) : i # j => order[i] # order[j]}

\* The operations on a document of the run.
Operations == {c \in Calls : IsCall(c, {UPDATE, RESOURCE})}

\* Every call has returned, the operations on the document are an update
\* with a content, a regeneration or a read, and they arrived when every
\* initialization had returned, the last of them with success.
OperationsAfterInitialization ==
    /\ \A c \in Calls : Done(c)
    /\ Operations # {}
    /\ \A c \in Operations : requests[c] \in DocumentRequests
    /\ \A c \in Operations, i \in Calls \ Operations :
           /\ IsCall(i, {INITIALIZE})
           /\ i \in calls[c].completed
    /\ \E i \in Calls \ Operations :
           /\ Succeeded(i)
           /\ \A c \in Operations :
                  calls[c].dirAtStart = memoryBankDirOf(requests[i].location)

\* C25: the operations on one document are serializable: when all have
\* returned, the file holds what some serial order of the successful ones
\* leaves in it.
C25_DocumentOperationsSerializable ==
    OperationsAfterInitialization =>
        LET first == least(Operations)
            succeeded == {c \in Operations : Succeeded(c)}
            filePath == documentPath(calls[first].dirAtStart, requests[first].documentType)
        IN  \E order \in Orders(succeeded) :
                Stored(filePath) = inOrder(calls[first].before, order)

\* The initializations that had returned when call c arrived all returned an
\* error, and no other initialization had arrived.
OnlyFailedInitializations(c) ==
    \A i \in Calls :
        IsCall(i, {INITIALIZE}) =>
            \/ i > c
            \/ i \in calls[c].completed /\ calls[i].result.isError

\* C26: an initialize_memory_bank call that returns an error leaves the
\* active location as it was: when no other initialization ran since it
\* arrived, MEMORY_BANK_DIR is what it was then, and an update or a read of
\* the resource that arrives when only failed initializations have run fails
\* with "Memory Bank not initialized".
C26_FailedInitializationKeepsLocation ==
    /\ \A c \in Calls :
           (/\ IsCall(c, {INITIALIZE})
            /\ Done(c)
            /\ calls[c].result.isError
            /\ \A i \in Calls \ {c} :
                   IsCall(i, {INITIALIZE}) =>
                       i \in calls[c].completed \/ calls[i].at = "pending")
               => MEMORY_BANK_DIR = calls[c].dirAtStart
    /\ \A c \in Calls :
           (/\ IsCall(c, {UPDATE, RESOURCE})
            /\ Done(c)
            /\ OnlyFailedInitializations(c))
               => calls[c].result = errorReply(NOT_INITIALIZED)

\* C27: as long as no initialize_memory_bank call has set MEMORY_BANK_DIR,
\* the disk holds no directory and no file of a Memory Bank, and every other
\* call has returned without using the disk: update_document and the resource
\* with the error "Memory Bank not initialized", query_memory_bank and
\* export_memory_bank with the message that is no error.
C27_NothingTouchedBeforeInitialization ==
    MEMORY_BANK_DIR = Null =>
        /\ directories = {}
        /\ files = <<>>
        /\ \A c \in Calls :
               (~IsCall(c, {INITIALIZE}) /\ calls[c].at # "pending") =>
                   /\ Done(c)
                   /\ ~calls[c].touched
                   /\ calls[c].wrote = {}
                   /\ calls[c].result =
                          IF IsCall(c, {UPDATE, RESOURCE})
                          THEN errorReply(NOT_INITIALIZED)
                          ELSE reply(NOT_INITIALIZED_INFO)

\* An update and a query have returned while an initialization is on its way.
C27_Witness ==
    /\ MEMORY_BANK_DIR = Null
    /\ \E c \in Calls : IsCall(c, {UPDATE}) /\ Done(c)
    /\ \E c \in Calls : IsCall(c, {QUERY}) /\ Done(c)

\* update_document was called with regenerate = false and without a content,
\* or with the empty string.
WithoutContent(c) ==
    /\ IsCall(c, {UPDATE})
    /\ ~requests[c].regenerate
    /\ requests[c].content.text = <<>>

\* C28: such a call, made when the Memory Bank is initialized, returns the
\* error "Content must be provided or regenerate=true" and creates or writes
\* no file, also when its document did not exist.
C28_NoContentNoChange ==
    \A c \in Calls :
        (WithoutContent(c) /\ Done(c) /\ calls[c].dirAtStart # Null) =>
            /\ calls[c].result = errorReply(CONTENT_REQUIRED)
            /\ calls[c].wrote = {}

============================================================================
